---- MODULE Spec2Model ----
(***************************************************************************)
(* A model of the job tree of cc0::job (src/jobs.h, src/jobs.cpp): the     *)
(* parent / first-child / next-sibling links, the lifecycle flags, cycle() *)
(* and kill() with the user hooks they call, and the safe reference        *)
(* job::ref with the shared {watchers, deleted} block.                     *)
(*                                                                         *)
(* The program is single threaded, but its hooks (on_tick, on_tock,        *)
(* on_birth, on_death, event callbacks) are user code that may call back   *)
(* into the public interface.  The model therefore keeps the C++ call      *)
(* stack explicitly: every public operation that can reach a hook is a     *)
(* frame whose code runs in steps that end where the code calls out, and   *)
(* user code (the top level when the stack is empty, or a hook when a hook *)
(* frame is on top) chooses the next call nondeterministically.            *)
(*                                                                         *)
(* A destroyed job keeps its record: it is the freed memory that a stale   *)
(* pointer still reads.  A frame that goes on running on a destroyed job   *)
(* either reads those stale values or crashes the process (Crash).         *)
(*                                                                         *)
(* Not modelled here: the existed/active counters and the creation stamp   *)
(* (written by cycle() and add_child, read by no branch of the code        *)
(* modelled), the time-scale setters, and the type registry.               *)
(***************************************************************************)
EXTENDS Integers, Sequences, FiniteSets, TLC

\* ---- bounds of the model ----
MaxCycles == 4    \* cycle() calls one run() may make
MaxLen == 2       \* results in a Results list built by user code
MaxJobs == 3      \* jobs ever constructed (job ids are never reused)
MaxOps  == 4      \* calls user code makes through the public interface
ShortDur == 1     \* the durations user code passes: a shorter
LongDur  == 3     \* and a longer one
NumRefs == 2      \* safe reference objects user code holds

\* ---- program constants ----
Null       == 0            \* nullptr
UINT64_MAX == 2147483647   \* largest duration value (the model's integer range)
UnitScale  == 65536        \* 1ULL << 16ULL, the fixed-point 1.0

JobIds    == 1..MaxJobs
RefIds    == 1..NumRefs
Durations == {ShortDur, LongDur}

VARIABLES
    jobs,          \* job id -> the fields of the job object
    shared,        \* job id -> the shared block the job's m_shared points to
    refs,          \* reference id -> the fields of the job::ref object
    stack,         \* the call stack, innermost frame first
    ops,           \* calls made by user code so far
    crashed,       \* the process died on an access to freed memory
    deathCount,    \* job id -> number of on_death invocations
    freeCount,     \* job id -> number of times the shared block was deleted
    killReturned,  \* job id -> a kill() call on the job has returned
    readFreed,     \* the reference operations that have read a destroyed job object
    birthCount,    \* job id -> number of on_birth invocations
    query,         \* the Results lists a, b of user code and the list res of the last join
    tree,          \* a search_tree keyed by strings: m_products, or the m_event_callbacks of the root
    out,           \* what the last call on the tree returned or invoked
    account        \* job id -> the time accounts of the job: m_existed_for_ns, m_active_for_ns

vars == <<jobs, shared, refs, stack, ops, crashed, deathCount, freeCount,
          killReturned, readFreed, birthCount, query, tree, out, account>>

\* ---- the job object ----

\* job::job(): the fields after construction; m_shared is the new block.
NewJob(id) ==
    [ st |-> "live", m_shared |-> id,
      m_parent |-> Null, m_sibling |-> Null, m_child |-> Null,
      m_sleep_ns |-> 0,
      m_min_duration_ns |-> 0, m_max_duration_ns |-> UINT64_MAX,
      m_accumulated_duration_ns |-> 0, m_max_ticks_per_cycle |-> 1,
      m_time_scale |-> UnitScale,
      m_event_callbacks |-> FALSE, m_sender_callbacks |-> {},
      m_enabled |-> TRUE, m_kill |-> FALSE, m_waiting |-> FALSE,
      m_tick_lock |-> FALSE ]

\* The slot of a job that has not been constructed yet.
NoJob == [NewJob(Null) EXCEPT !.st = "none"]

\* new shared{ 0, false }
NewShared == [alloc |-> "live", watchers |-> 0, deleted |-> FALSE]

NoShared == [alloc |-> "none", watchers |-> 0, deleted |-> FALSE]

\* ref::ref(): everything null.
NullRef == [m_job |-> Null, m_shared |-> Null]

is_killed(j)   == jobs[j].m_kill
is_alive(j)    == ~is_killed(j)
\* (variant for C2: is_enabled() without the test of the kill flag)
is_enabled_unguarded(j) == jobs[j].m_enabled
is_enabled(j)  == ~is_killed(j) /\ jobs[j].m_enabled
is_sleeping(j) == jobs[j].m_sleep_ns > 0
is_active(j)   == is_enabled(j) /\ ~is_sleeping(j)
is_waiting(j)  == jobs[j].m_waiting

scale_time(time, time_scale) == (time * time_scale) \div UnitScale

Live(j)      == jobs[j].st = "live"
Destroyed(j) == jobs[j].st = "destroyed"

\* The jobs a 'delete h' destroys: ~job deletes m_child and m_sibling.
RECURSIVE DeleteSet(_, _)
DeleteSet(J, h) ==
    IF h = Null THEN {}
    ELSE {h} \cup DeleteSet(J, J[h].m_child) \cup DeleteSet(J, J[h].m_sibling)

\* The child list of j, first child first.
RECURSIVE SiblingList(_, _)
SiblingList(J, h) ==
    IF h = Null THEN <<>> ELSE <<h>> \o SiblingList(J, J[h].m_sibling)

Children(j) == SiblingList(jobs, jobs[j].m_child)

ToSet(s) == {s[k] : k \in 1..Len(s)}

\* The descendants of j.
Descendants(j) == DeleteSet(jobs, jobs[j].m_child)

\* The children of j whose kill flag is set.
KilledChildren(j) == {c \in ToSet(Children(j)) : is_killed(c)}

\* ~job on every job of D: the links are nulled, the shared block is marked
\* deleted, and it is freed (and m_shared nulled) when nobody watches it.
DestroyJobs(J, S, D) ==
    [x \in JobIds |->
        IF x \in D
        THEN [J[x] EXCEPT !.st = "destroyed", !.m_child = Null, !.m_sibling = Null,
                          !.m_shared = IF S[x].watchers = 0 THEN Null ELSE @]
        ELSE J[x]]

\* (variant for C3: ~job without set_deleted())
DestroyShared_unflagged(S, D) ==
    [x \in JobIds |->
        IF x \in D /\ S[x].watchers = 0
        THEN [S[x] EXCEPT !.deleted = TRUE, !.alloc = "freed"]
        ELSE S[x]]

DestroyShared(S, D) ==
    [x \in JobIds |->
        IF x \in D
        THEN IF S[x].watchers = 0
             THEN [S[x] EXCEPT !.deleted = TRUE, !.alloc = "freed"]
             ELSE [S[x] EXCEPT !.deleted = TRUE]
        ELSE S[x]]

DestroyFrees(F, S, D) ==
    [x \in JobIds |-> IF x \in D /\ S[x].watchers = 0 THEN F[x] + 1 ELSE F[x]]

\* ---- the call stack ----

\* A frame: the operation, the job it runs on (this), where its code stands,
\* and its locals: the loop child c, duration_ns d, the loop counter i and the
\* saved min_dur_ns, max_dur_ns, and for add_child(type_name) the name.  Four
\* fields are not in the code and only record history: 'arg' (the duration
\* the call was made with), 'at_call' (for kill(): the descendants of the job
\* at the call; for cycle(): its children whose kill flag was set at the
\* call), 'pruned' (cycle() has run delete_killed_children) and 'ticked'
\* (cycle() has invoked on_tick in the current iteration of its loop).
Frame(op, job, pc, c, d, i, mn, mx) ==
    [op |-> op, job |-> job, pc |-> pc, c |-> c, d |-> d, i |-> i,
     mn |-> mn, mx |-> mx, name |-> "", arg |-> d,
     at_call |-> {}, pruned |-> FALSE, ticked |-> FALSE]

CallFrame(op, job, d) == Frame(op, job, "enter", Null, d, 0, 0, 0)
HookFrame(kind, job, d)  == Frame("hook", job, kind, Null, d, 0, 0, 0)

Top      == stack[1]
Push(f)  == <<f>> \o stack
Pop      == Tail(stack)
SetTop(f) == <<f>> \o Tail(stack)
\* The caller's frame is replaced by f and the callee g is entered.
CallFrom(f, g) == <<g, f>> \o Tail(stack)

Running(op, pc) == /\ ~crashed
                   /\ stack # <<>>
                   /\ Top.op = op
                   /\ Top.pc = pc

\* User code has control: the top level, or a hook in flight.
UserTurn == /\ ~crashed
            /\ (IF stack = <<>> THEN TRUE ELSE Top.op = "hook")

CanCall == UserTurn /\ ops < MaxOps

\* A tree is its nodes, in the order they were allocated, and the index of
\* the root; the links lte and gt are indices, Null for nullptr.
EmptyTree == [m_root |-> Null, nodes |-> <<>>]

\* The strings used as keys, as their characters: "A", "B", "C".
Names == {<<65>>, <<66>>, <<67>>}

\* No call on the tree has been made; arg is the value passed to the last
\* call that takes one, first the class each name was registered with first,
\* seen the values the function of the last traverse was called with.
NoOut == [op |-> "none", key |-> <<>>, arg |-> "none", ret |-> "none",
          first |-> [n \in Names |-> "nullptr"], seen |-> <<>>]

\* No Results list has been built.
NoQuery == [a |-> <<>>, b |-> <<>>, res |-> <<>>, op |-> "none",
            q |-> "none", job |-> Null, count |-> 0]

\* The time accounts of a job just constructed.  m_existed_for_ns and
\* m_active_for_ns are the members of the job; given_ns and slept_ns are not in
\* the code and record history: the scaled durations cycle() was called with
\* and the time taken off the sleep timer.
NoAccount == [m_existed_for_ns |-> 0, m_active_for_ns |-> 0,
              given_ns |-> 0, slept_ns |-> 0]

Init ==
    /\ jobs = [x \in JobIds |-> IF x = 1 THEN NewJob(1) ELSE NoJob]
    /\ shared = [x \in JobIds |-> IF x = 1 THEN NewShared ELSE NoShared]
    /\ refs = [r \in RefIds |-> NullRef]
    /\ stack = <<>>
    /\ ops = 0
    /\ crashed = FALSE
    /\ deathCount = [x \in JobIds |-> 0]
    /\ freeCount = [x \in JobIds |-> 0]
    /\ killReturned = [x \in JobIds |-> FALSE]
    /\ readFreed = {}
    /\ birthCount = [x \in JobIds |-> 0]
    /\ query = NoQuery
    /\ tree = EmptyTree
    /\ out = NoOut
    /\ account = [x \in JobIds |-> NoAccount]

\* ---- operations without a hook: one call, one step ----

Count == ops' = ops + 1

JobsOnly == UNCHANGED <<shared, refs, stack, crashed, deathCount, freeCount,
                        killReturned, readFreed, birthCount, query, tree, out, account>>

\* (variant for C1: enable() that also clears the kill flag)
Enable_reviving(j) ==
    /\ CanCall /\ Live(j)
    /\ jobs' = [jobs EXCEPT ![j].m_enabled = TRUE, ![j].m_kill = FALSE]
    /\ Count /\ JobsOnly

\* job::enable
Enable(j) ==
    /\ CanCall /\ Live(j)
    /\ jobs' = [jobs EXCEPT ![j].m_enabled = TRUE]
    /\ Count /\ JobsOnly

\* job::disable
Disable(j) ==
    /\ CanCall /\ Live(j)
    /\ jobs' = [jobs EXCEPT ![j].m_enabled = FALSE]
    /\ Count /\ JobsOnly

\* (variant for C35: sleep_for that sets the timer to the duration given)
SleepFor_resetting(j, duration_ns) ==
    /\ CanCall /\ Live(j)
    /\ jobs' = [jobs EXCEPT ![j].m_sleep_ns = duration_ns]
    /\ Count /\ JobsOnly

\* job::sleep_for
SleepFor(j, duration_ns) ==
    /\ CanCall /\ Live(j)
    /\ jobs' = [jobs EXCEPT ![j].m_sleep_ns =
                    IF @ > duration_ns THEN @ ELSE duration_ns]
    /\ Count /\ JobsOnly

\* job::wake
Wake(j) ==
    /\ CanCall /\ Live(j)
    /\ jobs' = [jobs EXCEPT ![j].m_sleep_ns = 0]
    /\ Count /\ JobsOnly

\* (variant for C34: the bounds are stored in the order they are given)
LimitTickInterval_unordered(j, min_duration_ns, max_duration_ns) ==
    /\ CanCall /\ Live(j)
    /\ jobs' = [jobs EXCEPT ![j].m_min_duration_ns = min_duration_ns,
                            ![j].m_max_duration_ns = max_duration_ns]
    /\ Count /\ JobsOnly

\* job::limit_tick_interval
LimitTickInterval(j, min_duration_ns, max_duration_ns) ==
    /\ CanCall /\ Live(j)
    /\ jobs' = [jobs EXCEPT
          ![j].m_min_duration_ns =
              IF min_duration_ns < max_duration_ns THEN min_duration_ns ELSE max_duration_ns,
          ![j].m_max_duration_ns =
              IF min_duration_ns > max_duration_ns THEN min_duration_ns ELSE max_duration_ns]
    /\ Count /\ JobsOnly

\* job::listen: binds the handler of the (one) event of the model.
Listen(j) ==
    /\ CanCall /\ Live(j)
    /\ jobs' = [jobs EXCEPT ![j].m_event_callbacks = TRUE]
    /\ Count /\ JobsOnly

\* ---- calls that can reach a hook: user code pushes the frame ----

StackOnly == UNCHANGED <<jobs, shared, refs, crashed, deathCount, freeCount,
                         killReturned, readFreed, birthCount, query, tree, out, account>>

FreeIds == {x \in JobIds : jobs[x].st = "none"}

\* The type names user code passes to add_child(type_name), and the registry
\* m_products after static initialisation: "A" is a job class declared with
\* CC0_JOBS_NEW, "B" is a name no class was declared with.
TypeNames == {"A", "B"}
m_products == {"A"}

\* (variant for C13: create_orphan that instantiates a job for any name)
create_orphan_any(type_name) == type_name \in TypeNames

\* create_orphan(type_name) finds a product to instantiate.
create_orphan(type_name) == type_name \in m_products

CallCycle(j, duration_ns) ==
    /\ CanCall /\ Live(j)
    /\ stack' = Push(CallFrame("cycle", j, duration_ns))
    /\ Count /\ StackOnly

CallKill(j) ==
    /\ CanCall /\ Live(j)
    /\ stack' = Push(CallFrame("kill", j, 0))
    /\ Count /\ StackOnly

CallAddChild(j) ==
    /\ CanCall /\ Live(j)
    /\ is_killed(j) \/ FreeIds # {}
    /\ stack' = Push(CallFrame("add_child", j, 0))
    /\ Count /\ StackOnly

\* (variant for C22: the new child does not take over the old list)
add_sibling_unlinked(J, this, p) ==
    [J EXCEPT ![p].m_parent = this,
              ![p].m_sibling = Null,
              ![this].m_child = p]

\* this->add_sibling(m_child, p) on the job table J.
add_sibling(J, this, p) ==
    [J EXCEPT ![p].m_parent = this,
              ![p].m_sibling = J[this].m_child,
              ![this].m_child = p]

\* add_child(type_name)
CallAddChildByName(j, type_name) ==
    /\ CanCall /\ Live(j)
    /\ is_killed(j) \/ ~create_orphan(type_name) \/ FreeIds # {}
    /\ stack' = Push([CallFrame("add_child", j, 0) EXCEPT !.name = type_name])
    /\ Count /\ StackOnly

\* sender.notify(event, target): the frame is target.get_notified(event,
\* sender).  The sender is the job whose code makes the call; get_notified
\* uses it only as a key that no listen overload binds.
CallNotify(target) ==
    /\ CanCall /\ Live(target)
    /\ stack' = Push(CallFrame("notify", target, 0))
    /\ Count /\ StackOnly

\* A hook returns to the code that invoked it.
HookReturn ==
    /\ ~crashed /\ stack # <<>> /\ Top.op = "hook"
    /\ stack' = Pop
    /\ UNCHANGED <<jobs, shared, refs, ops, crashed, deathCount, freeCount,
                   killReturned, readFreed, birthCount, query, tree, out, account>>

\* ---- job::cycle ----

NoRefs == UNCHANGED <<refs, ops, crashed, readFreed, query, tree, out, account>>

\* delete_killed_children(child): the recursion of the code over the sibling
\* list that starts at h.  The result is the job table with the list
\* relinked, the new value of the pointer the list hangs from, and the jobs
\* deleted.
\* (variant for C10: only the first child of the list is examined)
delete_killed_children_first(J, h) ==
    IF h = Null THEN [J |-> J, head |-> Null, dead |-> {}]
    ELSE IF J[h].m_kill
    THEN [J    |-> J,
          head |-> J[h].m_sibling,
          dead |-> {h} \cup DeleteSet(J, J[h].m_child)]
    ELSE [J |-> J, head |-> h, dead |-> {}]

RECURSIVE delete_killed_children(_, _)
delete_killed_children(J, h) ==
    IF h = Null THEN [J |-> J, head |-> Null, dead |-> {}]
    ELSE LET r  == delete_killed_children(J, J[h].m_sibling)
             J1 == [r.J EXCEPT ![h].m_sibling = r.head]
         IN  IF J1[h].m_kill
             THEN [J    |-> J1,
                   head |-> J1[h].m_sibling,
                   dead |-> r.dead \cup {h} \cup DeleteSet(J1, J1[h].m_child)]
             ELSE [J |-> J1, head |-> h, dead |-> r.dead]

\* (variant for C12: cycle() without the test of m_tick_lock)
CycleEnter_unguarded ==
    /\ Running("cycle", "enter")
    /\ LET j == Top.job IN
         /\ jobs' = [jobs EXCEPT
               ![j].m_tick_lock = TRUE,
               ![j].m_waiting = FALSE,
               ![j].m_accumulated_duration_ns =
                   @ + scale_time(Top.d, jobs[j].m_time_scale)]
         /\ stack' = SetTop([Top EXCEPT !.pc = "iter",
                                       !.at_call = KilledChildren(j),
                                       !.mn = jobs[j].m_min_duration_ns,
                                       !.mx = jobs[j].m_max_duration_ns,
                                       !.i  = jobs[j].m_max_ticks_per_cycle])
    /\ UNCHANGED <<shared, deathCount, freeCount, killReturned, birthCount>>
    /\ NoRefs

\* cycle(): the re-entrancy guard, the scaling and the accumulation, without
\* the time accounts.
cycle_enter ==
    /\ Running("cycle", "enter")
    /\ LET j == Top.job IN
         IF jobs[j].m_tick_lock
         THEN /\ stack' = Pop
              /\ UNCHANGED jobs
         ELSE /\ jobs' = [jobs EXCEPT
                    ![j].m_tick_lock = TRUE,
                    ![j].m_waiting = FALSE,
                    ![j].m_accumulated_duration_ns =
                        @ + scale_time(Top.d, jobs[j].m_time_scale)]
              /\ stack' = SetTop([Top EXCEPT !.pc = "iter",
                                            !.at_call = KilledChildren(j),
                                            !.mn = jobs[j].m_min_duration_ns,
                                            !.mx = jobs[j].m_max_duration_ns,
                                            !.i  = jobs[j].m_max_ticks_per_cycle])
    /\ UNCHANGED <<shared, deathCount, freeCount, killReturned, birthCount>>
    /\ UNCHANGED <<refs, ops, crashed, readFreed, query, tree, out>>

\* cycle() as the specifications that do not read the time accounts take it.
CycleEnter == cycle_enter /\ UNCHANGED account

\* (variant for C11: the tick loop without the call of on_tick)
CycleIter_tickless ==
    /\ Running("cycle", "iter")
    /\ LET j     == Top.job
           acc   == jobs[j].m_accumulated_duration_ns
           d0    == IF acc > Top.mx THEN Top.mx ELSE acc
           sleep == jobs[j].m_sleep_ns
           d1    == IF sleep > 0 /\ sleep > d0 THEN 0 ELSE d0
           sl1   == IF sleep > 0 /\ sleep > d0 THEN sleep - d0 ELSE 0
       IN
         IF Top.i = 0
         THEN /\ jobs' = [jobs EXCEPT
                    ![j].m_accumulated_duration_ns =
                        IF Top.mx > 0 THEN @ % Top.mx ELSE 0,
                    ![j].m_tick_lock = FALSE]
              /\ stack' = Pop
         ELSE IF d1 < Top.mn
         THEN /\ jobs' = [jobs EXCEPT ![j].m_sleep_ns = sl1,
                                      ![j].m_tick_lock = FALSE,
                                      ![j].m_waiting = TRUE]
              /\ stack' = Pop
         ELSE /\ jobs' = [jobs EXCEPT ![j].m_sleep_ns = sl1,
                                      ![j].m_accumulated_duration_ns = @ - d1]
              /\ stack' = SetTop([Top EXCEPT !.pc = "ticked", !.d = d1,
                                             !.ticked = FALSE])
    /\ UNCHANGED <<shared, deathCount, freeCount, killReturned, birthCount>>
    /\ NoRefs

\* (variant for C33: the abort for waiting drops the accumulated duration)
cycle_iter_forgetful ==
    /\ Running("cycle", "iter")
    /\ LET j     == Top.job
           acc   == jobs[j].m_accumulated_duration_ns
           d0    == IF acc > Top.mx THEN Top.mx ELSE acc
           sleep == jobs[j].m_sleep_ns
           d1    == IF sleep > 0 /\ sleep > d0 THEN 0 ELSE d0
           sl1   == IF sleep > 0 /\ sleep > d0 THEN sleep - d0 ELSE 0
       IN
         IF Top.i = 0
         THEN /\ jobs' = [jobs EXCEPT
                    ![j].m_accumulated_duration_ns =
                        IF Top.mx > 0 THEN @ % Top.mx ELSE 0,
                    ![j].m_tick_lock = FALSE]
              /\ stack' = Pop
         ELSE IF d1 < Top.mn
         THEN /\ jobs' = [jobs EXCEPT ![j].m_sleep_ns = sl1,
                                      ![j].m_accumulated_duration_ns = 0,
                                      ![j].m_tick_lock = FALSE,
                                      ![j].m_waiting = TRUE]
              /\ stack' = Pop
         ELSE /\ jobs' = [jobs EXCEPT ![j].m_sleep_ns = sl1,
                                      ![j].m_accumulated_duration_ns = @ - d1]
              /\ IF is_enabled(j) /\ ~(sl1 > 0)
                 THEN stack' = CallFrom([Top EXCEPT !.pc = "ticked", !.d = d1,
                                                    !.ticked = TRUE],
                                        HookFrame("on_tick", j, d1))
                 ELSE stack' = SetTop([Top EXCEPT !.pc = "ticked", !.d = d1,
                                                  !.ticked = FALSE])
    /\ UNCHANGED <<shared, deathCount, freeCount, killReturned, birthCount>>
    /\ UNCHANGED <<refs, ops, crashed, readFreed, query, tree, out>>

\* The head of the tick loop: the exit of cycle() when the iterations are
\* used up, otherwise the clipping, the sleep timer, the minimum-duration
\* test and on_tick.
cycle_iter ==
    /\ Running("cycle", "iter")
    /\ LET j     == Top.job
           acc   == jobs[j].m_accumulated_duration_ns
           d0    == IF acc > Top.mx THEN Top.mx ELSE acc
           sleep == jobs[j].m_sleep_ns
           \* 'm_sleep_ns = 0; duration_ns -= m_sleep_ns;' subtracts zero
           d1    == IF sleep > 0 /\ sleep > d0 THEN 0 ELSE d0
           sl1   == IF sleep > 0 /\ sleep > d0 THEN sleep - d0 ELSE 0
       IN
         IF Top.i = 0
         THEN /\ jobs' = [jobs EXCEPT
                    ![j].m_accumulated_duration_ns =
                        IF Top.mx > 0 THEN @ % Top.mx ELSE 0,
                    ![j].m_tick_lock = FALSE]
              /\ stack' = Pop
         ELSE IF d1 < Top.mn
         THEN /\ jobs' = [jobs EXCEPT ![j].m_sleep_ns = sl1,
                                      ![j].m_tick_lock = FALSE,
                                      ![j].m_waiting = TRUE]
              /\ stack' = Pop
         ELSE /\ jobs' = [jobs EXCEPT ![j].m_sleep_ns = sl1,
                                      ![j].m_accumulated_duration_ns = @ - d1]
              \* is_active() with the sleep timer as just updated
              /\ IF is_enabled(j) /\ ~(sl1 > 0)
                 THEN stack' = CallFrom([Top EXCEPT !.pc = "ticked", !.d = d1,
                                                    !.ticked = TRUE],
                                        HookFrame("on_tick", j, d1))
                 ELSE stack' = SetTop([Top EXCEPT !.pc = "ticked", !.d = d1,
                                                  !.ticked = FALSE])
    /\ UNCHANGED <<shared, deathCount, freeCount, killReturned, birthCount>>
    /\ UNCHANGED <<refs, ops, crashed, readFreed, query, tree, out>>

\* The head of the tick loop as the specifications that do not read the time
\* accounts take it.
CycleIter == cycle_iter /\ UNCHANGED account

\* cycle() with the time accounts: the scaled duration of the call is added to
\* what the job was given.
TimedCycleEnter ==
    /\ cycle_enter
    /\ account' = [account EXCEPT ![Top.job].given_ns =
                       @ + scale_time(Top.d, jobs[Top.job].m_time_scale)]

\* The head of the tick loop with the time accounts:
\* 'm_existed_for_ns += duration_ns' with the clipped duration, before the
\* sleep timer and the minimum-duration test, and 'm_active_for_ns +=
\* duration_ns' with the duration on_tick is called with.
TimedCycleIter ==
    /\ cycle_iter
    /\ LET j     == Top.job
           acc   == jobs[j].m_accumulated_duration_ns
           d0    == IF acc > Top.mx THEN Top.mx ELSE acc
           sleep == jobs[j].m_sleep_ns
           d1    == IF sleep > 0 /\ sleep > d0 THEN 0 ELSE d0
           sl1   == IF sleep > 0 /\ sleep > d0 THEN sleep - d0 ELSE 0
       IN
         IF Top.i = 0
         THEN UNCHANGED account
         ELSE account' = [account EXCEPT
                  ![j].m_existed_for_ns = @ + d0,
                  ![j].slept_ns = @ + (sleep - sl1),
                  ![j].m_active_for_ns =
                      IF d1 >= Top.mn /\ is_enabled(j) /\ ~(sl1 > 0)
                      THEN @ + d1 ELSE @]

\* tick_children from the child c on; when the loop ends,
\* delete_killed_children(m_child) and on_tock.
TickChildren(f, c) ==
    LET j == f.job IN
    IF c # Null /\ is_active(j)
    THEN /\ stack' = CallFrom([f EXCEPT !.pc = "child_ret", !.c = c],
                              CallFrame("cycle", c, f.d))
         /\ UNCHANGED <<jobs, shared, freeCount>>
    ELSE LET r == delete_killed_children(jobs, jobs[j].m_child)
             g == [f EXCEPT !.pc = "iter", !.c = Null, !.i = f.i - 1,
                            !.pruned = TRUE]
         IN  /\ jobs' = DestroyJobs([r.J EXCEPT ![j].m_child = r.head], shared, r.dead)
             /\ shared' = DestroyShared(shared, r.dead)
             /\ freeCount' = DestroyFrees(freeCount, shared, r.dead)
             /\ IF is_active(j)
                THEN stack' = CallFrom(g, HookFrame("on_tock", j, f.d))
                ELSE stack' = SetTop(g)

\* After on_tick (or without it): 'c = m_child' of tick_children.
CycleTicked ==
    /\ Running("cycle", "ticked")
    /\ TickChildren(Top, jobs[Top.job].m_child)
    /\ UNCHANGED <<deathCount, killReturned, birthCount>>
    /\ NoRefs

\* A child's cycle() has returned: 'c = c->m_sibling' of tick_children.
CycleChildRet ==
    /\ Running("cycle", "child_ret")
    /\ TickChildren(Top, jobs[Top.c].m_sibling)
    /\ UNCHANGED <<deathCount, killReturned, birthCount>>
    /\ NoRefs

\* ---- job::kill ----

\* kill_children from the child c on; when the loop ends, 'delete m_child'
\* and on_death.
KillChildren(f, c) ==
    LET j == f.job IN
    IF c # Null
    THEN /\ stack' = CallFrom([f EXCEPT !.pc = "kc_ret", !.c = c],
                              CallFrame("kill", c, 0))
         /\ UNCHANGED <<jobs, shared, freeCount, deathCount>>
    ELSE LET D == DeleteSet(jobs, jobs[j].m_child) IN
         /\ jobs' = DestroyJobs([jobs EXCEPT ![j].m_child = Null], shared, D)
         /\ shared' = DestroyShared(shared, D)
         /\ freeCount' = DestroyFrees(freeCount, shared, D)
         /\ deathCount' = [deathCount EXCEPT ![j] = @ + 1]
         /\ stack' = CallFrom([f EXCEPT !.pc = "died", !.c = Null],
                              HookFrame("on_death", j, 0))

\* kill(): nothing on a killed job, otherwise kill_children().
KillEnter ==
    /\ Running("kill", "enter")
    /\ LET j == Top.job IN
         IF is_alive(j)
         THEN /\ KillChildren([Top EXCEPT !.at_call = Descendants(j)], jobs[j].m_child)
              /\ UNCHANGED killReturned
         ELSE /\ stack' = Pop
              /\ killReturned' = [killReturned EXCEPT ![j] = TRUE]
              /\ UNCHANGED <<jobs, shared, freeCount, deathCount>>
    /\ UNCHANGED birthCount
    /\ NoRefs

\* A child's kill() has returned: 'c = c->m_sibling' of kill_children.
KillChildRet ==
    /\ Running("kill", "kc_ret")
    /\ KillChildren(Top, jobs[Top.c].m_sibling)
    /\ UNCHANGED <<killReturned, birthCount>>
    /\ NoRefs

\* on_death has returned: the flags are set and kill() returns.
KillDied ==
    /\ Running("kill", "died")
    /\ jobs' = [jobs EXCEPT ![Top.job].m_enabled = FALSE, ![Top.job].m_kill = TRUE]
    /\ killReturned' = [killReturned EXCEPT ![Top.job] = TRUE]
    /\ stack' = Pop
    /\ UNCHANGED <<shared, freeCount, deathCount, birthCount>>
    /\ NoRefs

\* ---- job::add_child ----

\* (variant for C14: add_sibling that links the new job behind the last child)
AddChildEnter_appending ==
    /\ Running("add_child", "enter")
    /\ LET j == Top.job IN
         IF is_killed(j) \/ (Top.name # "" /\ ~create_orphan(Top.name))
         THEN /\ stack' = Pop
              /\ UNCHANGED <<jobs, shared, birthCount>>
         ELSE LET p    == CHOOSE x \in FreeIds : \A y \in FreeIds : x <= y
                  kids == Children(j)
                  born == [NewJob(p) EXCEPT
                              !.m_parent = j,
                              !.m_min_duration_ns = jobs[j].m_min_duration_ns,
                              !.m_max_duration_ns = jobs[j].m_max_duration_ns]
              IN
              /\ jobs' = IF kids = <<>>
                         THEN [jobs EXCEPT ![p] = born, ![j].m_child = p]
                         ELSE [jobs EXCEPT ![p] = born,
                                           ![kids[Len(kids)]].m_sibling = p]
              /\ shared' = [shared EXCEPT ![p] = NewShared]
              /\ birthCount' = [birthCount EXCEPT ![p] = @ + 1]
              /\ stack' = CallFrom([Top EXCEPT !.pc = "born", !.c = p],
                                   HookFrame("on_birth", p, 0))
    /\ UNCHANGED <<deathCount, freeCount, killReturned>>
    /\ NoRefs

\* add_child<job_t>() and add_child(type_name): nothing on a killed parent or
\* for a name create_orphan does not know; otherwise add_sibling(m_child, p),
\* the tick bounds of the parent, on_birth.  The frame's c is the pointer p
\* that add_child returns.
AddChildEnter ==
    /\ Running("add_child", "enter")
    /\ LET j == Top.job IN
         IF is_killed(j) \/ (Top.name # "" /\ ~create_orphan(Top.name))
         THEN /\ stack' = Pop
              /\ UNCHANGED <<jobs, shared, birthCount>>
         ELSE LET p == CHOOSE x \in FreeIds : \A y \in FreeIds : x <= y IN
              /\ jobs' = add_sibling(
                    [jobs EXCEPT
                       ![p] = [NewJob(p) EXCEPT
                                 !.m_min_duration_ns = jobs[j].m_min_duration_ns,
                                 !.m_max_duration_ns = jobs[j].m_max_duration_ns]],
                    j, p)
              /\ shared' = [shared EXCEPT ![p] = NewShared]
              /\ birthCount' = [birthCount EXCEPT ![p] = @ + 1]
              /\ stack' = CallFrom([Top EXCEPT !.pc = "born", !.c = p],
                                   HookFrame("on_birth", p, 0))
    /\ UNCHANGED <<deathCount, freeCount, killReturned>>
    /\ NoRefs

\* on_birth has returned: add_child returns p.
AddChildBorn ==
    /\ Running("add_child", "born")
    /\ stack' = Pop
    /\ UNCHANGED <<jobs, shared, deathCount, freeCount, killReturned, birthCount>>
    /\ NoRefs

\* ---- job::get_notified ----

\* The frame's job is the target and its c the sender.  m_event_callbacks
\* tells that the table of key 0 binds the (one) event of the model,
\* m_sender_callbacks holds the senders whose table binds it.  (No listen
\* overload of the source binds a callback to one sender: with the source
\* alone the second lookup of get_notified finds nothing.)

\* 'if (is_active())' and the lookup in the table of key 0; without a
\* callback there, the lookup in the table of the sender.
NotifyEnter ==
    /\ Running("notify", "enter")
    /\ IF ~is_active(Top.job) THEN stack' = Pop
       ELSE IF jobs[Top.job].m_event_callbacks
       THEN stack' = CallFrom([Top EXCEPT !.pc = "done"],
                              HookFrame("event", Top.job, 0))
       ELSE IF Top.c \in jobs[Top.job].m_sender_callbacks
       THEN stack' = CallFrom([Top EXCEPT !.pc = "end"],
                              HookFrame("event", Top.job, 1))
       ELSE stack' = Pop
    /\ UNCHANGED <<jobs, shared, deathCount, freeCount, killReturned, birthCount>>
    /\ NoRefs

\* The callback of the table of key 0 has returned: the lookup in the table
\* of the sender.
NotifyDone ==
    /\ Running("notify", "done")
    /\ IF Top.c \in jobs[Top.job].m_sender_callbacks
       THEN stack' = CallFrom([Top EXCEPT !.pc = "end"],
                              HookFrame("event", Top.job, 1))
       ELSE stack' = Pop
    /\ UNCHANGED <<jobs, shared, deathCount, freeCount, killReturned, birthCount>>
    /\ NoRefs

\* The callback of the table of the sender has returned.
NotifyEnd ==
    /\ Running("notify", "end")
    /\ stack' = Pop
    /\ UNCHANGED <<jobs, shared, deathCount, freeCount, killReturned, birthCount>>
    /\ NoRefs

\* ---- notify_parent, notify_children, notify_group ----

\* sender.notify(event, target)
NotifyFrame(sender, target) == [CallFrame("notify", target, 0) EXCEPT !.c = sender]

\* notify_parent: 'if (m_parent != nullptr && is_active())'.
NotifyParentEnter ==
    /\ Running("notify_parent", "enter")
    /\ LET j == Top.job IN
         IF jobs[j].m_parent # Null /\ is_active(j)
         THEN stack' = CallFrom([Top EXCEPT !.pc = "end", !.c = jobs[j].m_parent,
                                            !.i = 1],
                                NotifyFrame(j, jobs[j].m_parent))
         ELSE stack' = Pop
    /\ UNCHANGED <<jobs, shared, deathCount, freeCount, killReturned, birthCount>>
    /\ NoRefs

\* (variant for C25: the loop of notify_children without the is_active() test)
NotifyChildrenLoop_untested(f, c) ==
    IF c # Null
    THEN stack' = CallFrom([f EXCEPT !.pc = "nc_ret", !.c = c, !.i = @ + 1],
                           NotifyFrame(f.job, c))
    ELSE stack' = Pop

\* notify_children: the test 'c != nullptr && is_active()' and the body of
\* the loop, for the frame f of the call and the child c.  The frame's i
\* counts the notifications made.
NotifyChildrenLoop(f, c) ==
    IF c # Null /\ is_active(f.job)
    THEN stack' = CallFrom([f EXCEPT !.pc = "nc_ret", !.c = c, !.i = @ + 1],
                           NotifyFrame(f.job, c))
    ELSE stack' = Pop

\* The frame's at_call keeps the child list as it was at the call.
NotifyChildrenEnter ==
    /\ Running("notify_children", "enter")
    /\ NotifyChildrenLoop([Top EXCEPT !.at_call = Children(Top.job)],
                          jobs[Top.job].m_child)
    /\ UNCHANGED <<jobs, shared, deathCount, freeCount, killReturned, birthCount>>
    /\ NoRefs

\* notify() has returned: 'c = c->m_sibling'.
NotifyChildrenRet ==
    /\ Running("notify_children", "nc_ret")
    /\ NotifyChildrenLoop(Top, jobs[Top.c].m_sibling)
    /\ UNCHANGED <<jobs, shared, deathCount, freeCount, killReturned, birthCount>>
    /\ NoRefs

\* notify_group(event, group), the frame's at_call being the group: the
\* test 'r != nullptr && is_active()' and the body of the loop, r being the
\* result after the i results notified.  get_job() of a result whose job
\* has been destroyed is null, and notify is passed '*null'.
NotifyGroupLoop ==
    /\ ~crashed /\ stack # <<>>
    /\ Top.op = "notify_group" /\ Top.pc \in {"enter", "ng_ret"}
    /\ LET j     == Top.job
           group == Top.at_call
           r     == Top.i + 1
       IN  IF r <= Len(group) /\ is_active(j)
           THEN IF Live(group[r])
                THEN /\ stack' = CallFrom([Top EXCEPT !.pc = "ng_ret",
                                                      !.c = group[r], !.i = r],
                                          NotifyFrame(j, group[r]))
                     /\ UNCHANGED crashed
                ELSE /\ crashed' = TRUE
                     /\ UNCHANGED stack
           ELSE /\ stack' = Pop
                /\ UNCHANGED crashed
    /\ UNCHANGED <<jobs, shared, refs, ops, deathCount, freeCount, killReturned,
                   readFreed, birthCount, query, tree, out, account>>

\* The calls of user code, from the top level and from hooks.
CallNotifyFrom(sender, target) ==
    /\ CanCall /\ Live(sender) /\ Live(target)
    /\ stack' = Push(NotifyFrame(sender, target))
    /\ Count /\ StackOnly

CallNotifyParent(j) ==
    /\ CanCall /\ Live(j)
    /\ stack' = Push(CallFrame("notify_parent", j, 0))
    /\ Count /\ StackOnly

CallNotifyChildren(j) ==
    /\ CanCall /\ Live(j)
    /\ stack' = Push(CallFrame("notify_children", j, 0))
    /\ Count /\ StackOnly

\* The group user code passes is the list of the jobs alive, oldest first.
LiveJobs == SelectSeq([k \in 1..MaxJobs |-> k], Live)

CallNotifyGroup(j) ==
    /\ CanCall /\ Live(j)
    /\ stack' = Push([CallFrame("notify_group", j, 0) EXCEPT !.at_call = LiveJobs])
    /\ Count /\ StackOnly

\* notify_parent returns.
NotifyParentEnd ==
    /\ Running("notify_parent", "end")
    /\ stack' = Pop
    /\ UNCHANGED <<jobs, shared, deathCount, freeCount, killReturned, birthCount>>
    /\ NoRefs

\* From the top level the jobs bind their handlers.
ListenAtStart(j) ==
    /\ stack = <<>> /\ Live(j)
    /\ ~jobs[j].m_event_callbacks
    /\ jobs' = [jobs EXCEPT ![j].m_event_callbacks = TRUE]
    /\ UNCHANGED ops
    /\ JobsOnly

\* The listen that binds a handler of j to the events of one sender: it
\* fills the table that get_notified reads with the key of the sender.
ListenFrom(j, sender) ==
    /\ stack = <<>> /\ Live(j)
    /\ sender \notin jobs[j].m_sender_callbacks
    /\ jobs' = [jobs EXCEPT ![j].m_sender_callbacks = @ \cup {sender}]
    /\ UNCHANGED ops
    /\ JobsOnly

\* ---- job::get_children ----

\* results::add_result appends at the end of the list.
add_result(r, j) == Append(r, j)

\* The loop of get_children from the child c on.
RECURSIVE get_children_from(_, _)
get_children_from(r, c) ==
    IF c = Null THEN r
    ELSE get_children_from(add_result(r, c), jobs[c].m_sibling)

get_children(j) == get_children_from(<<>>, jobs[j].m_child)

\* ---- search_tree ----

\* make_hash is FNV-1a over the bytes of the key.  The model keeps the low
\* HashBits bits of the sum, which depend on the low bits of the offset and
\* of the prime only.
HashBits  == 16
HashMod   == 2 ^ HashBits
FnvOffset == 8997      \* 0xcbf29ce484222325 % 2^16
FnvPrime  == 435       \* 0x100000001b3 % 2^16
KeyBytes  == 8         \* sizeof(const job*)

RECURSIVE xor(_, _)
xor(a, b) ==
    IF a = 0 THEN b
    ELSE IF b = 0 THEN a
    ELSE (((a % 2) + (b % 2)) % 2) + 2 * xor(a \div 2, b \div 2)

\* The bytes of a pointer to job j, least significant first: the address of
\* job j is j.
RECURSIVE bytes_of(_, _)
bytes_of(v, n) ==
    IF n = 0 THEN <<>> ELSE <<v % 256>> \o bytes_of(v \div 256, n - 1)

RECURSIVE fnv(_, _)
fnv(sum, K) ==
    IF K = <<>> THEN sum
    ELSE fnv((xor(sum, Head(K)) * FnvPrime) % HashMod, Tail(K))

make_hash(k) == fnv(FnvOffset, bytes_of(k, KeyBytes))

\* kcmp for a key that is a pointer casts the key itself to 'const uint8_t*':
\* it compares the first bytes of the two job objects, which hold the
\* pointer to the virtual table of the class.  Every job of the model is of
\* the same class.
object_head(j) == IF Live(j) THEN "vtable of job" ELSE "freed"
kcmp(a, b) == object_head(a) = object_head(b)

\* search_tree::get: the index of the node found, Null for nullptr.
RECURSIVE tree_find(_, _, _, _)
tree_find(t, n, hash, key) ==
    IF n = Null THEN Null
    ELSE IF hash <= t.nodes[n].hash
         THEN IF hash = t.nodes[n].hash /\ kcmp(key, t.nodes[n].key)
              THEN n
              ELSE tree_find(t, t.nodes[n].lte, hash, key)
         ELSE tree_find(t, t.nodes[n].gt, hash, key)

tree_get(t, key) == tree_find(t, t.m_root, make_hash(key), key)

\* search_tree::add: the walk down from the link (parent, side) that holds
\* n; a new node is hung from the null link the walk ends at.
RECURSIVE tree_add_at(_, _, _, _, _, _, _)
tree_add_at(t, n, parent, side, hash, key, value) ==
    IF n = Null
    THEN LET new == [hash |-> hash, key |-> key, lte |-> Null, gt |-> Null,
                     value |-> value]
             at  == Len(t.nodes) + 1
             ns  == Append(t.nodes, new)
         IN  IF parent = Null
             THEN [m_root |-> at, nodes |-> ns]
             ELSE [m_root |-> t.m_root,
                   nodes  |-> IF side = "lte"
                              THEN [ns EXCEPT ![parent].lte = at]
                              ELSE [ns EXCEPT ![parent].gt = at]]
    ELSE IF hash <= t.nodes[n].hash
         THEN IF hash = t.nodes[n].hash /\ kcmp(key, t.nodes[n].key)
              THEN t
              ELSE tree_add_at(t, t.nodes[n].lte, n, "lte", hash, key, value)
         ELSE tree_add_at(t, t.nodes[n].gt, n, "gt", hash, key, value)

tree_add(t, key, value) ==
    tree_add_at(t, t.m_root, Null, "lte", make_hash(key), key, value)

\* search_tree::traverse: the indices of the nodes in the order fn sees them.
RECURSIVE traverse(_, _)
traverse(t, n) ==
    IF n = Null THEN <<>>
    ELSE traverse(t, t.nodes[n].lte) \o <<n>> \o traverse(t, t.nodes[n].gt)

\* ---- search_tree keyed by strings ----

\* A walk that has not ended after more steps than the tree has nodes never
\* ends; a walk that comes to a node 'delete' has destroyed reads freed
\* memory.  Neither returns a result.
Hang == 0 - 1

\* What is left of a node after 'delete n'.
Deleted == [hash |-> 0, key |-> <<>>, lte |-> Null, gt |-> Null,
            value |-> "deleted"]

Lost(t, n, fuel) == fuel = 0 \/ t.nodes[n] = Deleted

\* make_hash(const char*): FNV-1a over the characters of the string.
str_hash(s) == fnv(FnvOffset, s)

\* kcmp(const char*, const char*)
RECURSIVE str_kcmp(_, _)
str_kcmp(a, b) ==
    IF a = <<>> THEN b = <<>>
    ELSE IF b = <<>> \/ Head(a) # Head(b) THEN FALSE
    ELSE str_kcmp(Tail(a), Tail(b))

\* search_tree::get from node n on: the index of the node found, Null for
\* nullptr, Hang if the loop does not end.
RECURSIVE str_find(_, _, _, _, _)
str_find(t, n, hash, key, fuel) ==
    IF n = Null THEN Null
    ELSE IF Lost(t, n, fuel) THEN Hang
    ELSE IF hash <= t.nodes[n].hash
         THEN IF hash = t.nodes[n].hash /\ str_kcmp(key, t.nodes[n].key)
              THEN n
              ELSE str_find(t, t.nodes[n].lte, hash, key, fuel - 1)
         ELSE str_find(t, t.nodes[n].gt, hash, key, fuel - 1)

str_get(t, key) == str_find(t, t.m_root, str_hash(key), key, Len(t.nodes) + 1)

\* search_tree::add from the link (parent, side) that holds n on; the tree
\* as it is if the loop does not end.
RECURSIVE str_add_at(_, _, _, _, _, _, _, _)
str_add_at(t, n, parent, side, hash, key, value, fuel) ==
    IF n = Null
    THEN LET new == [hash |-> hash, key |-> key, lte |-> Null, gt |-> Null,
                     value |-> value]
             at  == Len(t.nodes) + 1
             ns  == Append(t.nodes, new)
         IN  IF parent = Null
             THEN [m_root |-> at, nodes |-> ns]
             ELSE [m_root |-> t.m_root,
                   nodes  |-> IF side = "lte"
                              THEN [ns EXCEPT ![parent].lte = at]
                              ELSE [ns EXCEPT ![parent].gt = at]]
    ELSE IF Lost(t, n, fuel) THEN t
    ELSE IF hash <= t.nodes[n].hash
         THEN IF hash = t.nodes[n].hash /\ str_kcmp(key, t.nodes[n].key)
              THEN t
              ELSE str_add_at(t, t.nodes[n].lte, n, "lte", hash, key, value, fuel - 1)
         ELSE str_add_at(t, t.nodes[n].gt, n, "gt", hash, key, value, fuel - 1)

str_add(t, key, value) ==
    str_add_at(t, t.m_root, Null, "lte", str_hash(key), key, value,
               Len(t.nodes) + 1)

\* ---- the registry m_products ----

\* The job classes of the program, each with its static instance function.
Classes == {"class A", "class B"}

\* (variant for C23: a name that is taken is given the new class)
register_job_overwriting(t, type_name, class) ==
    LET n == str_get(t, type_name)
    IN  IF n # Null
        THEN [ret |-> "true", t |-> [t EXCEPT !.nodes[n].value = class]]
        ELSE [ret |-> "true", t |-> str_add(t, type_name, class)]

\* register_job<class>(type_name): what it returns and the registry after it.
register_job(t, type_name, class) ==
    IF str_get(t, type_name) # Null
    THEN [ret |-> "false", t |-> t]
    ELSE [ret |-> "true", t |-> str_add(t, type_name, class)]

\* create_orphan(type_name) on the registry t: the class of the job it
\* constructs, "nullptr" if it constructs none.
create_orphan_of(t, type_name) ==
    LET i == str_get(t, type_name)
    IN  IF i # Null THEN t.nodes[i].value ELSE "nullptr"

TreeOnly == UNCHANGED <<jobs, shared, refs, stack, ops, crashed, deathCount,
                        freeCount, killReturned, readFreed, birthCount, query,
                        account>>

RegisterJob(type_name, class) ==
    /\ stack = <<>>
    /\ LET r == register_job(tree, type_name, class)
       IN  /\ tree' = r.t
           /\ out' = [op |-> "register_job", key |-> type_name,
                      arg |-> class, ret |-> r.ret,
                      first |-> IF out.first[type_name] = "nullptr"
                                THEN [out.first EXCEPT ![type_name] = class]
                                ELSE out.first,
                      seen |-> <<>>]
    /\ TreeOnly

CreateOrphan(type_name) ==
    /\ stack = <<>>
    /\ out' = [out EXCEPT !.op = "create_orphan", !.key = type_name,
                          !.ret = create_orphan_of(tree, type_name)]
    /\ TreeOnly /\ UNCHANGED tree

\* root.add_child(type_name), the job constructed being of a class whose
\* on_birth does nothing.
AddChildNamed(type_name) ==
    /\ stack = <<>> /\ Live(1)
    /\ LET class == IF is_killed(1) THEN "nullptr"
                    ELSE create_orphan_of(tree, type_name)
       IN  /\ class # "nullptr" => FreeIds # {}
           /\ out' = [out EXCEPT !.op = "add_child", !.key = type_name,
                                 !.ret = class]
           /\ IF class = "nullptr"
              THEN UNCHANGED <<jobs, shared, birthCount>>
              ELSE LET p == CHOOSE x \in FreeIds : \A y \in FreeIds : x <= y
                   IN  /\ jobs' = add_sibling(
                             [jobs EXCEPT ![p] = [NewJob(p) EXCEPT
                                !.m_min_duration_ns = jobs[1].m_min_duration_ns,
                                !.m_max_duration_ns = jobs[1].m_max_duration_ns]],
                             1, p)
                       /\ shared' = [shared EXCEPT ![p] = NewShared]
                       /\ birthCount' = [birthCount EXCEPT ![p] = @ + 1]
    /\ UNCHANGED <<refs, stack, ops, crashed, deathCount, freeCount,
                   killReturned, readFreed, query, tree, account>>

RegistryNext ==
    \/ \E n \in Names, c \in Classes : RegisterJob(n, c)
    \/ \E n \in Names : CreateOrphan(n)
    \/ \E n \in Names : AddChildNamed(n)

RegistrySpec == Init /\ [][RegistryNext]_vars

\* ---- search_tree::remove ----

\* The loop that looks for the node to remove, at node n with parent p, n
\* being p's lte (rel 1) or gt (rel 2) or the root (rel 0): it goes on while
\* 'n != nullptr && n->hash != hash && !kcmp(n->key, key)'.
RECURSIVE str_remove_walk(_, _, _, _, _, _, _)
str_remove_walk(t, p, n, rel, hash, key, fuel) ==
    IF n = Null THEN [p |-> p, n |-> Null, rel |-> rel]
    ELSE IF Lost(t, n, fuel) THEN [p |-> p, n |-> Hang, rel |-> rel]
    ELSE IF t.nodes[n].hash # hash /\ ~str_kcmp(t.nodes[n].key, key)
         THEN IF hash <= t.nodes[n].hash
              THEN str_remove_walk(t, n, t.nodes[n].lte, 1, hash, key, fuel - 1)
              ELSE str_remove_walk(t, n, t.nodes[n].gt, 2, hash, key, fuel - 1)
         ELSE [p |-> p, n |-> n, rel |-> rel]

\* 'while (c->lte != nullptr) c = c->lte'
RECURSIVE str_leftmost(_, _, _)
str_leftmost(t, c, fuel) ==
    IF Lost(t, c, fuel) THEN Hang
    ELSE IF t.nodes[c].lte # Null THEN str_leftmost(t, t.nodes[c].lte, fuel - 1)
    ELSE c

\* 'if (rel == 1) p->lte = c; else if (rel == 2) p->gt = c; else m_root = c;'
set_link(t, p, rel, c) ==
    IF rel = 1 THEN [t EXCEPT !.nodes[p].lte = c]
    ELSE IF rel = 2 THEN [t EXCEPT !.nodes[p].gt = c]
    ELSE [t EXCEPT !.m_root = c]

\* 'delete n'
delete_node(t, n) == [t EXCEPT !.nodes[n] = Deleted]

\* search_tree::remove(key): the tree after it, and whether the call fails
\* to return.  The assignments are made in the order of the source, each
\* reading the tree the one before it left.
str_remove(t, key) ==
    LET w == str_remove_walk(t, Null, t.m_root, 0, str_hash(key), key,
                             Len(t.nodes) + 1)
        n == w.n
    IN  IF n = Hang THEN [t |-> t, hang |-> TRUE]
        ELSE IF n = Null THEN [t |-> t, hang |-> FALSE]
        ELSE
          LET gt  == t.nodes[n].gt
              lte == t.nodes[n].lte
              child_count == (IF gt # Null THEN 1 ELSE 0)
                               + (IF lte # Null THEN 1 ELSE 0)
          IN  IF child_count = 0
              THEN [t |-> delete_node(set_link(t, w.p, w.rel, Null), n),
                    hang |-> FALSE]
              ELSE IF child_count = 1
              THEN LET c == IF gt # Null THEN gt ELSE lte
                   IN  [t |-> delete_node(set_link(t, w.p, w.rel, c), n),
                        hang |-> FALSE]
              ELSE LET c == str_leftmost(t, gt, Len(t.nodes) + 1)
                   IN  IF c = Hang THEN [t |-> t, hang |-> TRUE]
                       ELSE LET t1 == set_link(t, w.p, w.rel, c)
                                t2 == [t1 EXCEPT !.nodes[c].lte = t1.nodes[n].lte]
                                t3 == [t2 EXCEPT !.nodes[c].gt = t2.nodes[n].gt]
                            IN  [t |-> delete_node(t3, n), hang |-> FALSE]

\* search_tree::traverse from node n on, r.seen being the values fn has been
\* called with and r.fuel the calls of traverse left before the walk is
\* known not to end (r.fuel = 0).
RECURSIVE str_traverse(_, _, _)
str_traverse(t, n, r) ==
    IF n = Null \/ r.fuel = 0 THEN r
    ELSE IF Lost(t, n, r.fuel - 1) THEN [r EXCEPT !.fuel = 0]
    ELSE LET a == str_traverse(t, t.nodes[n].lte, [r EXCEPT !.fuel = @ - 1])
         IN  IF a.fuel = 0 THEN a
             ELSE str_traverse(t, t.nodes[n].gt,
                               [a EXCEPT !.seen = Append(@, t.nodes[n].value)])

\* A walk over a tree without a cycle makes fewer calls than this.
TraverseFuel(t) == 2 ^ (Len(t.nodes) + 2)

traverse_all(t) == str_traverse(t, t.m_root, [seen |-> <<>>, fuel |-> TraverseFuel(t)])

\* The keys and the values user code stores.
Keys   == {<<65>>, <<66>>, <<67>>}
Values == {"v1", "v2"}

LeavesTree == UNCHANGED <<jobs, shared, refs, stack, deathCount, freeCount,
                          killReturned, readFreed, birthCount, query,
                        account>>

\* t.add(key, value)
TreeAdd(key, value) ==
    /\ ~crashed /\ ops < MaxOps
    /\ IF str_get(tree, key) = Hang
       THEN crashed' = TRUE /\ UNCHANGED tree
       ELSE tree' = str_add(tree, key, value) /\ UNCHANGED crashed
    /\ out' = [out EXCEPT !.op = "add", !.key = key, !.arg = value]
    /\ Count /\ LeavesTree

\* t.remove(key)
TreeRemove(key) ==
    /\ ~crashed /\ ops < MaxOps
    /\ LET r == str_remove(tree, key)
       IN  tree' = r.t /\ crashed' = r.hang
    /\ out' = [out EXCEPT !.op = "remove", !.key = key]
    /\ Count /\ LeavesTree

\* t.get(key): the value found, "nullptr" if none.
TreeGet(key) ==
    /\ ~crashed
    /\ LET n == str_get(tree, key)
       IN  /\ crashed' = (n = Hang)
           /\ out' = [out EXCEPT !.op = "get", !.key = key,
                                 !.ret = IF n = Hang THEN "none"
                                         ELSE IF n = Null THEN "nullptr"
                                         ELSE tree.nodes[n].value]
    /\ UNCHANGED <<tree, ops>> /\ LeavesTree

\* t.traverse(fn), fn recording the values it is called with.
TreeTraverse ==
    /\ ~crashed
    /\ LET r == traverse_all(tree)
       IN  /\ crashed' = (r.fuel = 0)
           /\ out' = [out EXCEPT !.op = "traverse", !.seen = r.seen]
    /\ UNCHANGED <<tree, ops>> /\ LeavesTree

SearchTreeNext ==
    \/ \E k \in Keys, v \in Values : TreeAdd(k, v)
    \/ \E k \in Keys : TreeRemove(k)
    \/ \E k \in Keys : TreeGet(k)
    \/ TreeTraverse

SearchTreeSpec == Init /\ [][SearchTreeNext]_vars

\* ---- job::listen, job::ignore ----

\* The variable tree is here the table of the callbacks of one job that
\* get_notified and ignore read with key 0: its keys are the events, its
\* values the member functions bound.
Events   == {<<65>>, <<66>>, <<67>>, <<68>>}
Handlers == {"fn1", "fn2"}
MaxCalls == 5

\* listen(event, fn): 'callback *c = add(event, callback()); c->set(self, fn)'.
\* add returns the value of the node that holds the event already, if any.
listen(t, event, fn) ==
    LET t1 == str_add(t, event, "callback()")
    IN  [t1 EXCEPT !.nodes[str_get(t1, event)].value = fn]

\* ignore(event): 't->remove(event)'.
ignore(t, event) == str_remove(t, event)

\* get_notified(event, sender) of an active job: the function the callback
\* found calls, "none" without a callback, "no return" if the lookup does
\* not return.
HandlerOf(t, event) ==
    LET n == str_get(t, event)
    IN  IF n = Hang THEN "no return"
        ELSE IF n = Null THEN "none"
        ELSE t.nodes[n].value

ListenTo(event, fn) ==
    /\ ~crashed /\ ops < MaxCalls
    /\ IF str_get(tree, event) = Hang
       THEN crashed' = TRUE /\ UNCHANGED tree
       ELSE tree' = listen(tree, event, fn) /\ UNCHANGED crashed
    /\ out' = [out EXCEPT !.op = "listen", !.key = event, !.arg = fn]
    /\ Count /\ LeavesTree

Ignore(event) ==
    /\ ~crashed /\ ops < MaxCalls
    /\ LET r == ignore(tree, event)
       IN  tree' = r.t /\ crashed' = r.hang
    /\ out' = [out EXCEPT !.op = "ignore", !.key = event]
    /\ Count /\ LeavesTree

\* sender.notify(event, job): out.ret is the function called.
Notified(event) ==
    /\ ~crashed
    /\ crashed' = (HandlerOf(tree, event) = "no return")
    /\ out' = [out EXCEPT !.op = "notify", !.key = event,
                          !.ret = HandlerOf(tree, event)]
    /\ UNCHANGED <<tree, ops>> /\ LeavesTree

ListenNext ==
    \/ \E e \in Events, fn \in Handlers : ListenTo(e, fn)
    \/ \E e \in Events : Ignore(e)
    \/ \E e \in Events : Notified(e)

ListenSpec == Init /\ [][ListenNext]_vars

\* ---- time scales ----

\* The scales are 64-bit fixed-point numbers with 16 fractional bits.  The
\* values of the model stay below 2^31, where no 64-bit operation wraps;
\* the operators below compute the products and quotients of the source
\* without a larger intermediate value.

\* (a * b) >> 16
mul_shr16(a, b) ==
    LET ah == a \div UnitScale
        al == a % UnitScale
        bh == b \div UnitScale
        bl == b % UnitScale
        a1 == al \div 256
        a0 == al % 256
    IN  ah * bh * UnitScale + ah * bl + al * bh
          + (a1 * bl + (a0 * bl) \div 256) \div 256

\* (n << k) / d by long division, q and r being the quotient and the
\* remainder of n / d.
RECURSIVE shl_div(_, _, _, _)
shl_div(q, r, d, k) ==
    IF k = 0 THEN q
    ELSE shl_div(2 * q + (2 * r) \div d, (2 * r) % d, d, k - 1)

\* (n << 16) / d, d not 0
shl16_div(n, d) == shl_div(n \div d, n % d, d, HashBits)

\* float(x / double(1 << 16)), as the number of 2^-16 it is: a float keeps
\* 24 significant bits, the rest is rounded to nearest, ties to even.
FloatBits == 24
RECURSIVE float_unit(_, _)
float_unit(x, u) == IF x < u * 2 ^ FloatBits THEN u ELSE float_unit(x, 2 * u)

to_float(x) ==
    LET u  == float_unit(x, 1)
        lo == (x \div u) * u
        r  == x - lo
    IN  IF 2 * r < u THEN lo
        ELSE IF 2 * r > u THEN lo + u
        ELSE IF (x \div u) % 2 = 0 THEN lo ELSE lo + u

\* get_parent_time_scale of job j in the jobs J
RECURSIVE get_parent_time_scale(_, _)
get_parent_time_scale(J, j) ==
    IF J[j].m_parent # Null
    THEN mul_shr16(J[J[j].m_parent].m_time_scale,
                   get_parent_time_scale(J, J[j].m_parent))
    ELSE UnitScale

\* 'm_time_scale = new_scale > 0 ? new_scale : 1'
clamp_scale(new_scale) == IF new_scale > 0 THEN new_scale ELSE 1

\* set_local_time_scale(time_scale), the argument being the float
\* time_scale / 2^16: 'uint64_t(time_scale * double(1 << 16))' is exact.
set_local_time_scale(J, j, time_scale) ==
    [J EXCEPT ![j].m_time_scale = clamp_scale(time_scale)]

\* set_global_time_scale(time_scale), the parent time scale not 0.
set_global_time_scale(J, j, time_scale) ==
    [J EXCEPT ![j].m_time_scale =
        clamp_scale(shl16_div(time_scale, get_parent_time_scale(J, j)))]

\* get_global_time_scale(), the float returned times 2^16.
get_global_time_scale(J, j) ==
    to_float(mul_shr16(J[j].m_time_scale, get_parent_time_scale(J, j)))

\* The number of bits of x.
RECURSIVE bits(_)
bits(x) == IF x = 0 THEN 0 ELSE 1 + bits(x \div 2)

\* The model keeps to scales whose products and quotients stay below 2^30:
\* (a * b) >> 16 does when a and b have no more than ProductBits bits
\* together, (n << 16) / d when n has no more than QuotientBits bits more
\* than d.
ProductBits  == 46
QuotientBits == 13

\* The global scale of j and of its ancestors can be computed.
RECURSIVE Fits(_, _)
Fits(J, j) ==
    /\ J[j].m_parent # Null => Fits(J, J[j].m_parent)
    /\ bits(J[j].m_time_scale) + bits(get_parent_time_scale(J, j)) <= ProductBits

InModelRange(J) == \A j \in JobIds : J[j].st = "live" => Fits(J, j)

\* The time scales user code passes: 65 / 2^16 (the float next below 0.001),
\* 0.5, 1.0 and 2.0.
LocalScales  == {65, 32768, 65536, 131072}
GlobalScales == {32768, 65536}

ScaleOnly == UNCHANGED <<shared, refs, stack, deathCount, freeCount,
                         killReturned, readFreed, birthCount, query, tree,
                         account>>

SetLocalTimeScale(j, time_scale) ==
    /\ UserTurn /\ stack = <<>> /\ Live(j)
    /\ jobs' = set_local_time_scale(jobs, j, time_scale)
    /\ InModelRange(jobs')
    /\ out' = [out EXCEPT !.op = "set_local_time_scale", !.key = <<j>>,
                          !.arg = time_scale]
    /\ UNCHANGED <<ops, crashed>> /\ ScaleOnly

\* With a parent time scale of 0 the division is undefined: the program is
\* stopped by the trap of the division, or the division yields a value
\* without one (0 where the instruction does not trap).
SetGlobalTimeScale(j, time_scale) ==
    /\ CanCall /\ stack = <<>> /\ Live(j)
    /\ IF get_parent_time_scale(jobs, j) = 0
       THEN \/ crashed' = TRUE /\ UNCHANGED jobs
            \/ /\ jobs' = [jobs EXCEPT ![j].m_time_scale = clamp_scale(0)]
               /\ UNCHANGED crashed
       ELSE /\ bits(time_scale)
                 <= QuotientBits + bits(get_parent_time_scale(jobs, j))
            /\ jobs' = set_global_time_scale(jobs, j, time_scale)
            /\ InModelRange(jobs')
            /\ UNCHANGED crashed
    /\ out' = [out EXCEPT !.op = "set_global_time_scale", !.key = <<j>>,
                          !.arg = time_scale]
    /\ Count /\ ScaleOnly

GetGlobalTimeScale(j) ==
    /\ UserTurn /\ stack = <<>> /\ Live(j)
    /\ out' = [out EXCEPT !.op = "get_global_time_scale", !.key = <<j>>,
                          !.arg = get_global_time_scale(jobs, j)]
    /\ UNCHANGED <<jobs, ops, crashed>> /\ ScaleOnly

TimeScaleNext ==
    \/ \E j \in JobIds : stack = <<>> /\ CallAddChild(j)
    \/ AddChildEnter \/ AddChildBorn \/ HookReturn
    \/ \E j \in JobIds, s \in LocalScales : SetLocalTimeScale(j, s)
    \/ \E j \in JobIds, s \in GlobalScales : SetGlobalTimeScale(j, s)
    \/ \E j \in JobIds : GetGlobalTimeScale(j)

TimeScaleSpec == Init /\ [][TimeScaleNext]_vars

\* ---- tick limits ----

\* is_tick_limited(): 'm_min_duration_ns != 0 || m_max_duration_ns != 0'
is_tick_limited(j) ==
    jobs[j].m_min_duration_ns # 0 \/ jobs[j].m_max_duration_ns # 0

\* job::unlimit_tick_interval
UnlimitTickInterval(j) ==
    /\ CanCall /\ Live(j)
    /\ jobs' = [jobs EXCEPT ![j].m_min_duration_ns = 0,
                            ![j].m_max_duration_ns = UINT64_MAX]
    /\ Count /\ JobsOnly

\* job::unlimit_tick_rate: 'unlimit_tick_interval()'
UnlimitTickRate(j) == UnlimitTickInterval(j)

\* j.is_tick_limited(), out.ret being what it returns.
IsTickLimited(j) ==
    /\ UserTurn /\ stack = <<>> /\ Live(j)
    /\ out' = [out EXCEPT !.op = "is_tick_limited", !.key = <<j>>,
                          !.ret = IF is_tick_limited(j) THEN "true" ELSE "false"]
    /\ UNCHANGED <<jobs, ops, crashed>> /\ ScaleOnly

\* The intervals user code passes, 0 included.
Intervals == {0} \cup Durations

TickLimitNext ==
    \/ \E j \in JobIds : stack = <<>> /\ CallAddChild(j)
    \/ AddChildEnter \/ AddChildBorn \/ HookReturn
    \/ \E j \in JobIds : \E mn \in Intervals, mx \in Intervals :
          LimitTickInterval(j, mn, mx)
    \/ \E j \in JobIds : UnlimitTickInterval(j)
    \/ \E j \in JobIds : UnlimitTickRate(j)
    \/ \E j \in JobIds : IsTickLimited(j)

TickLimitSpec == Init /\ [][TickLimitNext]_vars

\* ---- the joins of Results lists ----

\* (variant for C20: a node is added for every result, found or not)
RECURSIVE insert_and_increment_always(_, _)
insert_and_increment_always(t, r) ==
    IF r = <<>> THEN t
    ELSE LET key == Head(r)
             at  == Len(t.nodes) + 1
             new == [hash |-> make_hash(key), key |-> key, lte |-> Null,
                     gt |-> Null, value |-> [value |-> key, count |-> 1]]
             ns  == Append(t.nodes, new)
             t2  == IF t.m_root = Null
                    THEN [m_root |-> at, nodes |-> ns]
                    ELSE [m_root |-> t.m_root,
                          nodes  |-> [ns EXCEPT ![Len(t.nodes)].lte = at]]
         IN  insert_and_increment_always(t2, Tail(r))

\* insert_and_increment(t, r), r from its result i on.
RECURSIVE insert_and_increment(_, _)
insert_and_increment(t, r) ==
    IF r = <<>> THEN t
    ELSE LET key == Head(r)
             n   == tree_get(t, key)
             t2  == IF n # Null
                    THEN [t EXCEPT !.nodes[n].value.count = @ + 1]
                    ELSE tree_add(t, key, [value |-> key, count |-> 1])
         IN  insert_and_increment(t2, Tail(r))

\* remove_and_decrement(t, r), r from its result i on.
RECURSIVE remove_and_decrement(_, _)
remove_and_decrement(t, r) ==
    IF r = <<>> THEN t
    ELSE LET key == Head(r)
             n   == tree_get(t, key)
             t2  == IF n # Null
                    THEN [t EXCEPT !.nodes[n].value.count = @ - 1]
                    ELSE t
         IN  remove_and_decrement(t2, Tail(r))

\* The test in accum::operator() of each join.
keep(op, count) ==
    CASE op = "and" -> count >= 2
      [] op = "or"  -> TRUE
      [] op = "sub" -> count = 1
      [] op = "xor" -> count = 1

\* t.traverse(fn) with the accum of join op, over the nodes in order.
RECURSIVE accumulate(_, _, _, _)
accumulate(t, order, op, res) ==
    IF order = <<>> THEN res
    ELSE LET n == t.nodes[Head(order)].value
         IN  accumulate(t, Tail(order), op,
                        IF keep(op, n.count) THEN add_result(res, n.value) ELSE res)

join_and(a, b) ==
    LET t == insert_and_increment(insert_and_increment(EmptyTree, a), b)
    IN  accumulate(t, traverse(t, t.m_root), "and", <<>>)

join_or(a, b) ==
    LET t == insert_and_increment(insert_and_increment(EmptyTree, a), b)
    IN  accumulate(t, traverse(t, t.m_root), "or", <<>>)

join_sub(l, r) ==
    LET t == remove_and_decrement(insert_and_increment(EmptyTree, l), r)
    IN  accumulate(t, traverse(t, t.m_root), "sub", <<>>)

join_xor(a, b) ==
    LET t == insert_and_increment(insert_and_increment(EmptyTree, a), b)
    IN  accumulate(t, traverse(t, t.m_root), "xor", <<>>)

\* User code builds the Results lists a and b with add_result and joins them.
QueryOnly == UNCHANGED <<jobs, shared, refs, stack, ops, crashed, deathCount,
                         freeCount, killReturned, readFreed, birthCount,
                         tree, out, account>>

AddResultA(j) ==
    /\ stack = <<>> /\ Live(j)
    /\ Len(query.a) < MaxLen
    /\ query' = [query EXCEPT !.a = add_result(@, j), !.res = <<>>, !.op = "none"]
    /\ QueryOnly

AddResultB(j) ==
    /\ stack = <<>> /\ Live(j)
    /\ Len(query.b) < MaxLen
    /\ query' = [query EXCEPT !.b = add_result(@, j), !.res = <<>>, !.op = "none"]
    /\ QueryOnly

JoinAnd ==
    /\ stack = <<>> /\ query.op = "none"
    /\ query' = [query EXCEPT !.res = join_and(query.a, query.b), !.op = "and"]
    /\ QueryOnly

JoinOr ==
    /\ stack = <<>> /\ query.op = "none"
    /\ query' = [query EXCEPT !.res = join_or(query.a, query.b), !.op = "or"]
    /\ QueryOnly

JoinSub ==
    /\ stack = <<>> /\ query.op = "none"
    /\ query' = [query EXCEPT !.res = join_sub(query.a, query.b), !.op = "sub"]
    /\ QueryOnly

JoinXor ==
    /\ stack = <<>> /\ query.op = "none"
    /\ query' = [query EXCEPT !.res = join_xor(query.a, query.b), !.op = "xor"]
    /\ QueryOnly

\* The joined list is dropped and the lists are joined again.
DropJoin ==
    /\ stack = <<>> /\ query.op # "none"
    /\ query' = [query EXCEPT !.res = <<>>, !.op = "none"]
    /\ QueryOnly

JoinNext ==
    \/ \E j \in JobIds : stack = <<>> /\ CallAddChild(j)
    \/ AddChildEnter \/ AddChildBorn \/ HookReturn
    \/ \E j \in JobIds : AddResultA(j) \/ AddResultB(j)
    \/ JoinAnd \/ JoinOr \/ JoinSub \/ JoinXor
    \/ DropJoin

JoinSpec == Init /\ [][JoinNext]_vars

\* ---- filters ----

\* The queries of user code: the base class query, whose operator() returns
\* true, and a class derived from it that returns j.is_enabled().
Queries == {"query", "is_enabled"}

Matches(q, j) == IF q = "query" THEN TRUE ELSE is_enabled(j)

\* (variant for C21: the accepted results are put in front of the new list)
RECURSIVE filter_results_prepending(_, _)
filter_results_prepending(r, q) ==
    IF r = <<>> THEN <<>>
    ELSE LET rest == filter_results_prepending(Tail(r), q)
         IN  IF Matches(q, Head(r)) THEN rest \o <<Head(r)>> ELSE rest

\* filter_results: the loop over the results c of the list, adding to r.
RECURSIVE filter_from(_, _, _)
filter_from(r, c, q) ==
    IF c = <<>> THEN r
    ELSE filter_from(IF Matches(q, Head(c)) THEN add_result(r, Head(c)) ELSE r,
                     Tail(c), q)

filter_results(r, q) == filter_from(<<>>, r, q)

filter_children(j, q) == filter_results(get_children(j), q)

RECURSIVE count_results(_)
count_results(r) == IF r = <<>> THEN 0 ELSE 1 + count_results(Tail(r))

\* res = a.filter_results(q); res.count_results()
FilterResults(q) ==
    /\ stack = <<>> /\ query.op = "none"
    /\ LET res == filter_results(query.a, q)
       IN  query' = [query EXCEPT !.res = res, !.op = "filter_results",
                                  !.q = q, !.count = count_results(res)]
    /\ QueryOnly

\* res = j.filter_children(q); res.count_results()
FilterChildren(j, q) ==
    /\ stack = <<>> /\ query.op = "none"
    /\ Live(j)
    /\ LET res == filter_children(j, q)
       IN  query' = [query EXCEPT !.res = res, !.op = "filter_children",
                                  !.q = q, !.job = j,
                                  !.count = count_results(res)]
    /\ QueryOnly

\* The filtered list is dropped.
DropFilter ==
    /\ stack = <<>> /\ query.op # "none"
    /\ query' = [NoQuery EXCEPT !.a = query.a]
    /\ QueryOnly

FilterNext ==
    \/ \E j \in JobIds : stack = <<>> /\ CallAddChild(j)
    \/ AddChildEnter \/ AddChildBorn \/ HookReturn
    \/ \E j \in JobIds : stack = <<>> /\ query.op = "none" /\ Disable(j)
    \/ \E j \in JobIds : AddResultA(j)
    \/ \E q \in Queries : FilterResults(q)
    \/ \E j \in JobIds, q \in Queries : FilterChildren(j, q)
    \/ DropFilter

FilterSpec == Init /\ [][FilterNext]_vars

\* ---- freed memory ----

\* The frame on top runs on a destroyed job, or is about to read the sibling
\* link of a destroyed child.
UseAfterFree ==
    /\ stack # <<>>
    /\ \/ Destroyed(Top.job)
       \/ Top.pc \in {"child_ret", "kc_ret", "nc_ret"} /\ Destroyed(Top.c)

\* One outcome of such an access: the process dies.  The other outcome is
\* that the access reads the values the destroyed object was left with,
\* which is what the steps above do.
Crash ==
    /\ ~crashed
    /\ UseAfterFree
    /\ crashed' = TRUE
    /\ UNCHANGED <<jobs, shared, refs, stack, ops, deathCount, freeCount,
                   killReturned, readFreed, birthCount, query, tree, out, account>>

\* The owner of the root deletes it (top level only).
DestroyRoot ==
    /\ CanCall /\ stack = <<>> /\ Live(1)
    /\ LET D == {1} \cup DeleteSet(jobs, jobs[1].m_child) IN
         /\ jobs' = DestroyJobs(jobs, shared, D)
         /\ shared' = DestroyShared(shared, D)
         /\ freeCount' = DestroyFrees(freeCount, shared, D)
    /\ Count
    /\ UNCHANGED <<refs, stack, crashed, deathCount, killReturned, readFreed,
                   birthCount, query, tree, out, account>>

\* ---- job::ref ----

\* The part of the state the reference operations work on.
RefState == [refs |-> refs, shared |-> shared, frees |-> freeCount]

\* (variant for C5: release() that frees the block with the last watcher,
\* whether or not the job is deleted)
release_eager(X, r) ==
    LET b == X.refs[r].m_shared
        w == X.shared[b].watchers - 1
    IN  IF b # Null
        THEN [refs   |-> [X.refs EXCEPT ![r] = NullRef],
              shared |-> [X.shared EXCEPT
                            ![b].watchers = w,
                            ![b].alloc = IF w = 0 THEN "freed" ELSE @],
              frees  |-> [X.frees EXCEPT ![b] = IF w = 0 THEN @ + 1 ELSE @]]
        ELSE [X EXCEPT !.refs = [X.refs EXCEPT ![r] = NullRef]]

\* ref::release
release(X, r) ==
    LET b == X.refs[r].m_shared
        w == X.shared[b].watchers - 1
    IN  IF b # Null
        THEN [refs   |-> [X.refs EXCEPT ![r] = NullRef],
              shared |-> [X.shared EXCEPT
                            ![b].watchers = w,
                            ![b].alloc = IF w = 0 /\ X.shared[b].deleted
                                         THEN "freed" ELSE @],
              frees  |-> [X.frees EXCEPT
                            ![b] = IF w = 0 /\ X.shared[b].deleted THEN @ + 1 ELSE @]]
        ELSE [X EXCEPT !.refs = [X.refs EXCEPT ![r] = NullRef]]

\* 'm_job = p; m_shared = m_job->m_shared; ++m_shared->watchers'
bind(X, r, p) ==
    LET b == jobs[p].m_shared IN
    [X EXCEPT !.refs = [X.refs EXCEPT ![r] = [m_job |-> p, m_shared |-> b]],
              !.shared = [X.shared EXCEPT ![b].watchers = @ + 1]]

\* (variant for C6: set_ref() that does not release the old binding)
set_ref_keeping(X, r, p) ==
    IF p # X.refs[r].m_job
    THEN IF p # Null THEN bind(X, r, p) ELSE release(X, r)
    ELSE X

\* ref::set_ref
set_ref(X, r, p) ==
    IF p # X.refs[r].m_job
    THEN IF p # Null THEN bind(release(X, r), r, p) ELSE release(X, r)
    ELSE X

\* ref::get_job
get_job(r) ==
    IF refs[r].m_shared # Null /\ ~shared[refs[r].m_shared].deleted
    THEN refs[r].m_job ELSE Null

\* ref::operator->
arrow(r) == refs[r].m_job

RefFrame == UNCHANGED <<jobs, stack, ops, deathCount, killReturned, birthCount,
                       query, tree, out, account>>

\* The operation 'kind' completes; 'read' is the job object it read (Null:
\* none).
Commit(kind, X, read) ==
    /\ refs' = X.refs
    /\ shared' = X.shared
    /\ freeCount' = X.frees
    /\ readFreed' = IF read # Null /\ Destroyed(read)
                    THEN readFreed \cup {kind} ELSE readFreed
    /\ UNCHANGED crashed

Abort ==
    /\ crashed' = TRUE
    /\ UNCHANGED <<refs, shared, freeCount, readFreed>>

\* set_ref(p) on reference r, then the rest of the operation.  Binding to p
\* reads p->m_shared: when p is a destroyed job that is a read of freed
\* memory, which yields the value the destructor left there or ends the
\* process; a null m_shared ends the process at '++m_shared->watchers'.
SetRefOutcome(X, r, p, after(_)) ==
    IF p = Null \/ p = X.refs[r].m_job
    THEN Commit("set_ref", after(set_ref(X, r, p)), Null)
    ELSE IF jobs[p].m_shared = Null
    THEN Abort
    ELSE \/ Commit("set_ref", after(set_ref(X, r, p)), p)
         \/ Destroyed(p) /\ Abort

Same(X) == X

\* ref::ref(job2_t *p) on a new reference object.
RefConstruct(r, p) ==
    /\ UserTurn /\ refs[r] = NullRef /\ Live(p)
    /\ Commit("ref", bind(RefState, r, p), p)
    /\ RefFrame

\* ref::ref(const ref &r) on a new reference object: ref(), set_ref(r.m_job).
RefCopyConstruct(r, src) ==
    /\ UserTurn /\ refs[r] = NullRef /\ r # src /\ refs[src] # NullRef
    /\ SetRefOutcome(RefState, r, refs[src].m_job, Same)
    /\ RefFrame

\* ref::ref(ref &&r) on a new reference object.
RefMoveConstruct(r, src) ==
    /\ UserTurn /\ refs[r] = NullRef /\ r # src /\ refs[src] # NullRef
    /\ Commit("move", [RefState EXCEPT !.refs = [refs EXCEPT ![r] = refs[src],
                                                     ![src] = NullRef]],
              Null)
    /\ RefFrame

\* ref::operator=(const ref &r)
RefCopyAssign(r, src) ==
    /\ UserTurn /\ r # src /\ refs[r] # NullRef
    /\ SetRefOutcome(RefState, r, refs[src].m_job, Same)
    /\ RefFrame

\* ref::operator=(ref &&r): set_ref(r.m_job), r.release().
RefMoveAssign(r, src) ==
    /\ UserTurn /\ r # src /\ refs[r] # NullRef
    /\ LET thenRelease(X) == release(X, src) IN
         SetRefOutcome(RefState, r, refs[src].m_job, thenRelease)
    /\ RefFrame

\* ref::set_ref with a pointer user code holds: null or a job not destroyed.
RefSetRef(r, p) ==
    /\ UserTurn /\ (IF p = Null THEN TRUE ELSE Live(p))
    /\ p # refs[r].m_job
    /\ SetRefOutcome(RefState, r, p, Same)
    /\ RefFrame

\* ref::release, ref::~ref
RefRelease(r) ==
    /\ UserTurn /\ refs[r] # NullRef
    /\ Commit("release", release(RefState, r), Null)
    /\ RefFrame

\* ref::cast: m_job->cast<job2_t>() calls the virtual self() of the job
\* without looking at the shared block.  On a null reference the process
\* dies; on a reference to a destroyed job it is a read of freed memory (the
\* type walk goes on with what it finds, or the process dies).  On a live job
\* it changes nothing and is no step; the reference it returns is a temporary
\* whose watch is released again.
RefCast(r) ==
    /\ UserTurn
    /\ LET p == refs[r].m_job IN
         IF p = Null THEN Abort
         ELSE /\ Destroyed(p)
              /\ (Commit("cast", RefState, p) \/ Abort)
    /\ RefFrame

Step ==
    \/ CycleEnter \/ CycleIter \/ CycleTicked \/ CycleChildRet
    \/ KillEnter \/ KillChildRet \/ KillDied
    \/ AddChildEnter \/ AddChildBorn
    \/ NotifyEnter \/ NotifyDone
    \/ HookReturn
    \/ Crash

UserOp ==
    \/ \E j \in JobIds : Enable(j)
    \/ \E j \in JobIds : Disable(j)
    \/ \E j \in JobIds : \E d \in Durations : SleepFor(j, d)
    \/ \E j \in JobIds : Wake(j)
    \/ \E j \in JobIds : \E mn \in Durations, mx \in Durations : LimitTickInterval(j, mn, mx)
    \/ \E j \in JobIds : Listen(j)
    \/ \E j \in JobIds : \E d \in Durations : CallCycle(j, d)
    \/ \E j \in JobIds : CallKill(j)
    \/ \E j \in JobIds : CallAddChild(j)
    \/ \E t \in JobIds : CallNotify(t)
    \/ DestroyRoot

Next == Step \/ UserOp

Spec == Init /\ [][Next]_vars

\* The reference operations, with the calls that construct and destroy jobs.
RefOp ==
    \/ \E r \in RefIds : \E p \in JobIds : RefConstruct(r, p)
    \/ \E r \in RefIds, src \in RefIds : RefCopyConstruct(r, src)
    \/ \E r \in RefIds, src \in RefIds : RefMoveConstruct(r, src)
    \/ \E r \in RefIds, src \in RefIds : RefCopyAssign(r, src)
    \/ \E r \in RefIds, src \in RefIds : RefMoveAssign(r, src)
    \/ \E r \in RefIds : \E p \in JobIds \cup {Null} : RefSetRef(r, p)
    \/ \E r \in RefIds : RefRelease(r)
    \/ \E r \in RefIds : RefCast(r)

\* The hooks of this specification make no calls: jobs are called from the
\* top level only.
RefJobOp ==
    /\ stack = <<>>
    /\ \/ \E j \in JobIds : CallCycle(j, ShortDur)
       \/ \E j \in JobIds : CallKill(j)
       \/ \E j \in JobIds : CallAddChild(j)
       \/ DestroyRoot

RefStep ==
    \/ CycleEnter \/ CycleIter \/ CycleTicked \/ CycleChildRet
    \/ KillEnter \/ KillChildRet \/ KillDied
    \/ AddChildEnter \/ AddChildBorn
    \/ HookReturn

RefNext == RefStep \/ RefJobOp \/ RefOp

RefSpec == Init /\ [][RefNext]_vars

\* ---- job::run ----

\* is_disabled
is_disabled(j) == ~is_enabled(j)

\* has_enabled_children: the loop skips the disabled children.
has_enabled_children(j) ==
    LET enabled == SelectSeq(Children(j), LAMBDA c : ~is_disabled(c))
    IN  enabled # <<>>

\* root.run(fixed_duration_ns), called once, from the top level.
CallRun(fixed_duration_ns) ==
    /\ UserTurn /\ stack = <<>>
    /\ Live(1) /\ birthCount[1] = 0
    /\ stack' = Push(CallFrame("run", 1, fixed_duration_ns))
    /\ UNCHANGED ops
    /\ StackOnly

\* run(): on_birth() and the first duration_ns.
RunEnter ==
    /\ Running("run", "enter")
    /\ LET j   == Top.job
           min == jobs[j].m_min_duration_ns
           d   == IF Top.arg > min THEN Top.arg ELSE min
       IN  /\ birthCount' = [birthCount EXCEPT ![j] = @ + 1]
           /\ stack' = CallFrom([Top EXCEPT !.pc = "loop", !.d = d],
                                HookFrame("on_birth", j, 0))
    /\ UNCHANGED <<jobs, shared, deathCount, freeCount, killReturned>>
    /\ NoRefs

\* 'while (is_enabled())': cycle(duration_ns), or run() returns.  The frame's
\* i counts the cycle() calls made.
RunLoop ==
    /\ Running("run", "loop")
    /\ IF is_enabled(Top.job)
       THEN /\ Top.i < MaxCycles
            /\ stack' = CallFrom([Top EXCEPT !.pc = "cycled", !.i = @ + 1],
                                 CallFrame("cycle", Top.job, Top.d))
       ELSE stack' = Pop
    /\ UNCHANGED <<jobs, shared, deathCount, freeCount, killReturned, birthCount>>
    /\ NoRefs

\* cycle() has returned: the next duration_ns is the fixed one, or the time
\* the clock says the cycle took, and at least the minimum duration.
RunCycled ==
    /\ Running("run", "cycled")
    /\ \E measured \in {0} \cup Durations :
         LET min == jobs[Top.job].m_min_duration_ns
             d   == IF Top.arg = 0 THEN measured ELSE Top.arg
         IN  /\ Top.arg # 0 => measured = 0
             /\ stack' = SetTop([Top EXCEPT !.pc = "loop",
                                            !.d = IF d < min THEN min ELSE d])
    /\ UNCHANGED <<jobs, shared, deathCount, freeCount, killReturned, birthCount>>
    /\ NoRefs

\* The hooks of the run scenario.  The root is the root of the tree, with
\* ptree::pre_tick as its on_tick: 'if (get_child() == nullptr) kill();'.
\* Every other job kills itself in its first on_tick.  The frame's i tells
\* that the hook has made its call.
SchedulerPreTick ==
    /\ Running("hook", "on_tick")
    /\ Top.job = 1 /\ Top.i = 0
    /\ IF jobs[1].m_child = Null
       THEN stack' = CallFrom([Top EXCEPT !.i = 1], CallFrame("kill", 1, 0))
       ELSE stack' = SetTop([Top EXCEPT !.i = 1])
    /\ UNCHANGED ops
    /\ StackOnly

ChildTick ==
    /\ Running("hook", "on_tick")
    /\ Top.job # 1 /\ Top.i = 0
    /\ stack' = CallFrom([Top EXCEPT !.i = 1], CallFrame("kill", Top.job, 0))
    /\ UNCHANGED ops
    /\ StackOnly

RunHookReturn ==
    /\ Running("hook", Top.pc)
    /\ Top.pc = "on_tick" => Top.i = 1
    /\ HookReturn

\* Before run(): the tree is built and children are disabled.
RunSetup ==
    /\ stack = <<>> /\ birthCount[1] = 0
    /\ \/ \E j \in JobIds : CallAddChild(j)
       \/ \E j \in JobIds \ {1} : Disable(j)

RunStep ==
    \/ RunEnter \/ RunLoop \/ RunCycled
    \/ SchedulerPreTick \/ ChildTick \/ RunHookReturn
    \/ CycleEnter \/ CycleIter \/ CycleTicked \/ CycleChildRet
    \/ KillEnter \/ KillChildRet \/ KillDied
    \/ AddChildEnter \/ AddChildBorn

RunNext ==
    \/ RunSetup
    \/ \E d \in {0} \cup Durations : CallRun(d)
    \/ RunStep

RunSpec == Init /\ [][RunNext]_vars

\* The calls that build and take down the tree, made from the top level and
\* from hooks, with add_child in both its forms.
TreeOp ==
    \/ \E j \in JobIds : CallAddChild(j)
    \/ \E j \in JobIds : \E n \in TypeNames : CallAddChildByName(j, n)
    \/ \E j \in JobIds : CallKill(j)
    \/ \E j \in JobIds : CallCycle(j, ShortDur)

TreeStep ==
    \/ CycleEnter \/ CycleIter \/ CycleTicked \/ CycleChildRet
    \/ KillEnter \/ KillChildRet \/ KillDied
    \/ AddChildEnter \/ AddChildBorn
    \/ HookReturn
    \/ Crash

TreeNext == TreeStep \/ TreeOp

TreeSpec == Init /\ [][TreeNext]_vars

\* Notifications: the tree is built and the handlers are bound from the top
\* level; notifications are sent, and jobs are disabled, put to sleep and
\* killed, from the top level and from the handlers.
NotifyOp ==
    \/ \E j \in JobIds : stack = <<>> /\ CallAddChild(j)
    \/ \E j \in JobIds : ListenAtStart(j)
    \/ \E j \in JobIds : ListenFrom(j, 1)
    \/ \E sender \in JobIds, target \in JobIds : CallNotifyFrom(sender, target)
    \/ \E j \in JobIds : Disable(j)
    \/ \E j \in JobIds : SleepFor(j, ShortDur)
    \/ \E j \in JobIds : CallKill(j)

NotifyStep ==
    \/ NotifyEnter \/ NotifyDone \/ NotifyEnd
    \/ KillEnter \/ KillChildRet \/ KillDied
    \/ AddChildEnter \/ AddChildBorn
    \/ HookReturn
    \/ Crash

NotifyNext == NotifyStep \/ NotifyOp

NotifySpec == Init /\ [][NotifyNext]_vars

\* Fan-outs: every job binds a handler as soon as it is constructed; the
\* notifications are sent from the top level by notify_parent,
\* notify_children and notify_group.
EveryJobListens == \A k \in JobIds : Live(k) => jobs[k].m_event_callbacks

FanOutOp ==
    \/ \E j \in JobIds : stack = <<>> /\ EveryJobListens /\ CallAddChild(j)
    \/ \E j \in JobIds : ListenAtStart(j)
    \/ \E j \in JobIds : stack = <<>> /\ EveryJobListens /\ CallNotifyParent(j)
    \/ \E j \in JobIds : stack = <<>> /\ EveryJobListens /\ CallNotifyChildren(j)
    \/ \E j \in JobIds : stack = <<>> /\ EveryJobListens /\ CallNotifyGroup(j)
    \/ \E j \in JobIds : Disable(j)
    \/ \E j \in JobIds : SleepFor(j, ShortDur)
    \/ \E j \in JobIds : CallKill(j)

FanOutStep ==
    \/ NotifyEnter \/ NotifyDone
    \/ NotifyParentEnter \/ NotifyParentEnd
    \/ NotifyChildrenEnter \/ NotifyChildrenRet
    \/ NotifyGroupLoop
    \/ KillEnter \/ KillChildRet \/ KillDied
    \/ AddChildEnter \/ AddChildBorn
    \/ HookReturn
    \/ Crash

FanOutNext == FanOutStep \/ FanOutOp

FanOutSpec == Init /\ [][FanOutNext]_vars


\* ======================= the claims =======================

\* The references that watch the block of job b.
Watching(b) == {r \in RefIds : refs[r].m_shared = b}

\* Reference r is bound to a job that has been destroyed.
BoundToDestroyed(r) ==
    /\ refs[r].m_job # Null
    /\ Destroyed(refs[r].m_job)

\* The step is the return of a kill() call on j that found j alive.
KillCompletes(j) ==
    /\ stack # <<>>
    /\ Top.op = "kill" /\ Top.pc = "died" /\ Top.job = j
    /\ stack' = Tail(stack)

\* The step is the return of a cycle() call on j.
CycleReturns(j) ==
    /\ stack # <<>>
    /\ Top.op = "cycle" /\ Top.job = j
    /\ stack' = Tail(stack)

\* The step invokes a hook: the frame on top of the new stack is the hook,
\* the frame below it the code that invokes it.
HookInvoked ==
    /\ Len(stack') = Len(stack) + 1
    /\ stack'[1].op = "hook"

\* C1: is_killed() is monotonic: over every step of every operation, a job
\* for which is_killed() is true and which still exists after the step is
\* still killed after it.
KilledStaysKilled ==
    [][\A j \in JobIds :
          (Live(j) /\ is_killed(j) /\ jobs'[j].st = "live") => jobs'[j].m_kill]_vars

\* A killed job on which enable() has been called since, still killed.
KilledStaysKilled_Witness ==
    \E j \in JobIds :
        Live(j) /\ killReturned[j] /\ is_killed(j) /\ jobs[j].m_enabled

\* C2: a killed job is terminal: once a kill() call on J has returned, J is
\* neither enabled nor active after any step (enable() and wake() included),
\* and no step of a cycle() or of a notification invokes a hook of J.
KilledIsTerminal ==
    [][/\ \A j \in JobIds :
            killReturned'[j] => (~is_enabled(j)' /\ ~is_active(j)')
       /\ (HookInvoked /\ stack'[2].op \in {"cycle", "notify"})
              => ~killReturned[stack'[1].job]]_vars

\* A cycle() on a killed job that was enabled again and is awake has passed
\* the point of on_tick.
KilledIsTerminal_Witness ==
    \E j \in JobIds :
        /\ Live(j) /\ killReturned[j]
        /\ jobs[j].m_enabled /\ jobs[j].m_sleep_ns = 0
        /\ stack # <<>>
        /\ Top.op = "cycle" /\ Top.job = j /\ Top.pc = "ticked"

DestroyedJobNeverYielded ==
    /\ \A r \in RefIds :
          BoundToDestroyed(r) => (get_job(r) = Null /\ arrow(r) = Null)
    /\ "cast" \notin readFreed

KillIsEager ==
    [][/\ \A j \in JobIds :
            KillCompletes(j) =>
                /\ \A x \in Top.at_call :
                      deathCount'[x] = 1 /\ jobs'[x].st = "destroyed"
                /\ jobs'[j].m_child = Null
                /\ deathCount'[j] = 1
                /\ ~jobs'[j].m_enabled /\ jobs'[j].m_kill
       /\ (HookInvoked /\ stack'[1].pc = "on_death")
              => \A x \in stack'[2].at_call : deathCount[x] >= 1]_vars

\* C8: kill() is idempotent: a kill() call on a killed job returns without
\* changing any job, block or hook count, and no job's death hook is ever
\* invoked more than once.
KillIsIdempotent ==
    [][/\ \A j \in JobIds :
            (Running("kill", "enter") /\ Top.job = j /\ is_killed(j) /\ ~crashed')
                => /\ stack' = Tail(stack)
                   /\ jobs' = jobs /\ shared' = shared
                   /\ deathCount' = deathCount
       /\ \A j \in JobIds : deathCount'[j] <= 1]_vars

\* C9: no job is destroyed while one of its hooks or its cycle() is on the
\* call stack.
NeverDestroyedInFlight ==
    \A k \in 1..Len(stack) :
        stack[k].op \in {"hook", "cycle"} => ~Destroyed(stack[k].job)

\* The children of j that a cycle() call on j, returning in this step, found
\* with the kill flag set when it was made.
KilledAtCall(j) ==
    IF Top.pc = "enter" THEN KilledChildren(j) ELSE Top.at_call

NotKilled(c) == ~is_killed(c)

\* The step is the delete_killed_children(m_child) of a cycle() on j.
PruneStep(j) ==
    /\ stack # <<>>
    /\ Top.op = "cycle" /\ Top.job = j
    /\ Top.pc \in {"ticked", "child_ret"}
    /\ Len(stack') >= Len(stack)
    /\ stack'[Len(stack') - Len(stack) + 1].pc = "iter"

\* C10 as stated: whenever a cycle() call on a parent returns, every child
\* whose kill flag was set when the call was made has been removed from the
\* child list and destroyed, whatever the state of the parent.
KilledChildPrunedByNextCycle ==
    [][\A j \in JobIds :
          CycleReturns(j) =>
              \A c \in KilledAtCall(j) :
                  jobs'[c].st = "destroyed" /\ c \notin ToSet(Children(j)')]_vars

\* C10 as amended: a cycle() call on a parent that reaches its pruning step
\* (it was not dropped by the re-entrancy guard and not aborted as waiting
\* before its first tick) has, when it returns, removed and destroyed every
\* child whose kill flag was set when the call was made; the pruning step
\* removes exactly the killed children and keeps the others in their order.
KilledChildPrunedByTickingCycle ==
    [][/\ \A j \in JobIds :
            (CycleReturns(j) /\ Top.pruned) =>
                \A c \in Top.at_call :
                    jobs'[c].st = "destroyed" /\ c \notin ToSet(Children(j)')
       /\ \A j \in JobIds :
            PruneStep(j) =>
                /\ Children(j)' = SelectSeq(Children(j), NotKilled)
                /\ \A c \in KilledChildren(j) : jobs'[c].st = "destroyed"]_vars

\* A cycle() on a parent that is alive but not active has pruned a killed
\* child.
KilledChildPrunedByTickingCycle_Witness ==
    /\ stack # <<>>
    /\ Top.op = "cycle" /\ Top.pruned
    /\ Live(Top.job) /\ is_alive(Top.job) /\ ~is_active(Top.job)
    /\ Top.at_call # {}
    /\ \A c \in Top.at_call : Destroyed(c)


\* C11: within one cycle of a job J, J's on_tick is invoked before any child
\* of J is cycled, and J's on_tock only after on_tick and the pruning, when
\* no child of J is in the middle of a cycle started within J's; a hook on
\* the stack below another frame is waiting for a call that it made itself.
TickBeforeChildrenBeforeTock ==
    \A k \in 1..(Len(stack) - 1) :
        LET f == stack[k]
            g == stack[k + 1]
        IN  /\ (f.op = "cycle" /\ g.op = "cycle")
                  => (g.pc = "child_ret" /\ g.c = f.job /\ g.ticked /\ ~g.pruned)
            /\ (f.op = "hook" /\ f.pc = "on_tick")
                  => (g.op = "cycle" /\ g.job = f.job /\ g.pc = "ticked"
                      /\ g.ticked /\ ~g.pruned)
            /\ (f.op = "hook" /\ f.pc = "on_tock")
                  => /\ g.op = "cycle" /\ g.job = f.job /\ g.pc = "iter"
                     /\ g.ticked /\ g.pruned
                     /\ k = 1 =>
                          \A c \in ToSet(Children(g.job)) :
                              jobs[c].m_tick_lock =>
                                  \E m \in (k + 2)..Len(stack) :
                                      stack[m].op = "cycle" /\ stack[m].job = c
            /\ g.op = "hook" => f.op # "hook"

\* on_tock of a job that has a child, in a cycle made by its own parent.
TickBeforeChildrenBeforeTock_Witness ==
    /\ Len(stack) = 3
    /\ Top.op = "hook" /\ Top.pc = "on_tock"
    /\ Live(Top.job) /\ Children(Top.job) # <<>>
    /\ stack[3].op = "cycle" /\ stack[3].job = jobs[Top.job].m_parent

\* C12: a cycle() call on a job whose tick lock is set returns at once and
\* changes no job, block or hook count; the lock of a job is set only while
\* a cycle() of the job is on the call stack, and every return of a cycle()
\* that took the lock leaves it released.
ReentrantCycleDropped ==
    /\ [](\A j \in JobIds :
            (Live(j) /\ jobs[j].m_tick_lock) =>
                \E k \in 1..Len(stack) :
                    stack[k].op = "cycle" /\ stack[k].job = j /\ stack[k].pc # "enter")
    /\ [][/\ (Running("cycle", "enter") /\ jobs[Top.job].m_tick_lock /\ ~crashed')
               => /\ stack' = Tail(stack)
                  /\ jobs' = jobs /\ shared' = shared
                  /\ deathCount' = deathCount /\ birthCount' = birthCount
          /\ \A j \in JobIds :
               (CycleReturns(j) /\ Top.pc # "enter") => ~jobs'[j].m_tick_lock]_vars

\* A cycle() call arrives on a job that is inside its own cycle() and has a
\* killed child to prune.
ReentrantCycleDropped_Witness ==
    /\ stack # <<>>
    /\ Top.op = "cycle" /\ Top.pc = "enter"
    /\ Live(Top.job) /\ jobs[Top.job].m_tick_lock
    /\ KilledChildren(Top.job) # {}

\* C13: add_child on a killed parent, and add_child by a name that is not in
\* the registry, returns null, constructs no job, invokes no on_birth and
\* leaves every job unchanged.
AddChildRejected ==
    [][(/\ Running("add_child", "enter")
        /\ ~crashed'
        /\ \/ is_killed(Top.job)
           \/ (Top.name # "" /\ Top.name \notin m_products))
          => /\ stack' = Tail(stack)
             /\ Top.c = Null
             /\ jobs' = jobs /\ shared' = shared
             /\ birthCount' = birthCount]_vars

\* add_child by a registered name arrives on a killed parent while a job
\* could still be constructed.
AddChildRejected_Witness ==
    /\ stack # <<>>
    /\ Top.op = "add_child" /\ Top.pc = "enter" /\ Top.name \in m_products
    /\ Live(Top.job) /\ is_killed(Top.job)
    /\ FreeIds # {}

CycledByParent(c) ==
    /\ Running("cycle", "iter")
    /\ Top.job = c /\ Top.i > 0 /\ Live(c)
    /\ Top.mn = 0 /\ Top.mx = UINT64_MAX
    /\ Len(stack) >= 2
    /\ stack[2].op = "cycle" /\ stack[2].pc = "child_ret" /\ stack[2].c = c
    /\ stack[2].job = jobs[c].m_parent /\ Live(stack[2].job)
    /\ stack[2].mn = 0 /\ stack[2].mx = UINT64_MAX
    /\ stack[2].d = stack[2].arg
    /\ Top.arg = stack[2].arg

\* C15: when an active parent without tick limits is cycled with duration d,
\* a child with s > d of sleep remaining is left with s - d and gets no
\* on_tick, and an enabled child that is awake gets on_tick with exactly d.
SleepingChildKeepsSleeping ==
    [][\A c \in JobIds :
          (CycledByParent(c) /\ ~crashed') =>
              /\ jobs[c].m_sleep_ns > Top.arg =>
                    /\ jobs'[c].m_sleep_ns = jobs[c].m_sleep_ns - Top.arg
                    /\ stack'[1].op # "hook"
              /\ (jobs[c].m_sleep_ns = 0 /\ is_enabled(c)) =>
                    /\ stack'[1].op = "hook" /\ stack'[1].pc = "on_tick"
                    /\ stack'[1].d = Top.arg]_vars


\* The step is the root's pre-tick.
RootPreTick ==
    /\ stack # <<>>
    /\ Top.op = "hook" /\ Top.pc = "on_tick"
    /\ Top.job = 1 /\ Top.i = 0

\* C16: in run(), the root kills itself on the first pre-tick at which it
\* has no enabled children; run() calls cycle() only on an enabled root and
\* returns at the first loop test that finds the root not enabled.
RootKillsItselfWithoutEnabledChildren ==
    [][/\ (RootPreTick /\ ~has_enabled_children(1)) =>
              /\ Len(stack') = Len(stack) + 1
              /\ stack'[1].op = "kill" /\ stack'[1].job = 1
       /\ (stack # <<>> /\ Top.op = "run" /\ Top.pc = "loop" /\ Len(stack') > Len(stack))
              => is_enabled(1)
       /\ (stack # <<>> /\ Top.op = "run" /\ Top.pc = "loop" /\ ~is_enabled(1))
              => stack' = Tail(stack)]_vars

\* The number of times job j occurs in the Results list r.
Occurrences(j, r) == Cardinality({i \in 1..Len(r) : r[i] = j})

Occurs(j, r) == Occurrences(j, r) > 0

\* C17: join_and(A,B) contains every job that occurs in both A and B exactly
\* once and no job that occurs in only one of them, whatever the number of
\* times a job occurs in A or in B.
JoinAndIsIntersection ==
    query.op = "and" =>
        \A j \in JobIds :
            Occurrences(j, query.res) =
                IF Occurs(j, query.a) /\ Occurs(j, query.b) THEN 1 ELSE 0

\* C18: join_xor(A,B) contains exactly the jobs that occur in exactly one of
\* A and B, each exactly once, whatever the number of times a job occurs in
\* A or in B.
JoinXorIsSymmetricDifference ==
    query.op = "xor" =>
        \A j \in JobIds :
            Occurrences(j, query.res) =
                IF Occurs(j, query.a) # Occurs(j, query.b) THEN 1 ELSE 0

\* C19: join_sub(A,B) contains exactly the jobs that occur in A and do not
\* occur in B, each exactly once, whatever the number of times a job occurs
\* in A or in B.
JoinSubIsDifference ==
    query.op = "sub" =>
        \A j \in JobIds :
            Occurrences(j, query.res) =
                IF Occurs(j, query.a) /\ ~Occurs(j, query.b) THEN 1 ELSE 0

\* C20: join_or(A,B) is the deduplicated union of A and B, and the result of
\* every join contains every job at most once and only jobs of A and B,
\* whatever the number of times a job occurs in A or in B.
JoinOrIsUnionAndJoinsHaveNoDuplicates ==
    /\ query.op = "or" =>
           \A j \in JobIds :
               Occurrences(j, query.res) =
                   IF Occurs(j, query.a) \/ Occurs(j, query.b) THEN 1 ELSE 0
    /\ query.op # "none" =>
           \A j \in JobIds :
               /\ Occurrences(j, query.res) <= 1
               /\ Occurs(j, query.res) => Occurs(j, query.a) \/ Occurs(j, query.b)

\* join_or of a list that holds a job twice and a list that holds that job
\* and another one.
JoinOrIsUnionAndJoinsHaveNoDuplicates_Witness ==
    /\ query.op = "or"
    /\ \E j \in JobIds :
          /\ Occurrences(j, query.a) = 2
          /\ Occurs(j, query.b)
    /\ Len(query.b) = 2
    /\ Len(query.res) = 2

\* The step filters a list.
Filters == query.op = "none" /\ query'.op \in {"filter_results", "filter_children"}

\* C21: filter_results and filter_children return exactly the entries of
\* the input the query accepts, in the order of the input, and leave the
\* input list as it was; count_results of the result is its length, 0 when
\* the query accepts no entry.
FilterKeepsMatchesInOrder ==
    [][Filters =>
          LET input == IF query'.op = "filter_results"
                       THEN query.a ELSE Children(query'.job)
              q     == query'.q
          IN  /\ query'.res = SelectSeq(input, LAMBDA j : Matches(q, j))
              /\ query'.count = Len(query'.res)
              /\ (\A k \in 1..Len(input) : ~Matches(q, input[k]))
                     => query'.res = <<>> /\ query'.count = 0
              /\ query'.a = query.a
              /\ jobs' = jobs]_vars

\* filter_children with a query that accepts none of the two children of the
\* job has returned the empty list.
FilterKeepsMatchesInOrder_Witness ==
    /\ query.op = "filter_children"
    /\ query.q = "is_enabled"
    /\ Len(Children(query.job)) = 2
    /\ query.res = <<>> /\ query.count = 0

\* The jobs met by following the sibling links from h, n links at most.
RECURSIVE SiblingsWithin(_, _)
SiblingsWithin(h, n) ==
    IF h = Null \/ n = 0 THEN <<>>
    ELSE <<h>> \o SiblingsWithin(jobs[h].m_sibling, n - 1)

\* The child list of p, cut off after more links than there are jobs.
ChildList(p) == SiblingsWithin(jobs[p].m_child, MaxJobs + 1)

\* The jobs met by following the parent links from j, n links at most.
RECURSIVE AncestorsWithin(_, _)
AncestorsWithin(j, n) ==
    IF j = Null \/ n = 0 THEN <<>>
    ELSE <<j>> \o AncestorsWithin(jobs[j].m_parent, n - 1)

NoRepeat(seq) == \A a, b \in 1..Len(seq) : seq[a] = seq[b] => a = b

\* C22: the links of the live jobs form a forest: a live job other than the
\* root is in the child list of exactly one live job, once, and that job is
\* its parent; the root is in no list; child lists and parent chains hold
\* live jobs only and never come back to a job.
LinksFormForest ==
    ~crashed =>
    \A j \in JobIds : Live(j) =>
        /\ NoRepeat(ChildList(j)) /\ Len(ChildList(j)) <= MaxJobs
        /\ NoRepeat(AncestorsWithin(j, MaxJobs + 1))
        /\ Len(AncestorsWithin(j, MaxJobs + 1)) <= MaxJobs
        /\ \A c \in ToSet(ChildList(j)) : Live(c) /\ jobs[c].m_parent = j
        /\ LET owners == {p \in JobIds : Live(p) /\ j \in ToSet(ChildList(p))}
           IN  IF jobs[j].m_parent = Null
               THEN owners = {} /\ jobs[j].m_sibling = Null
               ELSE owners = {jobs[j].m_parent}

\* The root had two children; the newer one, at the head of the list, has
\* been killed and pruned, and the older one is the whole list.
LinksFormForest_Witness ==
    /\ ~crashed /\ stack = <<>>
    /\ Live(1) /\ Live(2) /\ ~is_killed(2)
    /\ Destroyed(3) /\ jobs[3].m_parent = 1
    /\ ChildList(1) = <<2>>

\* C23: register_job with a name that is already registered returns false
\* and leaves the registry as it was; create_orphan and add_child by a name
\* construct a job of the class the name was registered with first, and no
\* job for a name that was never registered.
FirstRegistrationIsKept ==
    [][/\ (out'.op = "register_job" /\ out' # out
             /\ out.first[out'.key] # "nullptr")
            => out'.ret = "false" /\ tree' = tree
       /\ (out'.op = "register_job" /\ out' # out
             /\ out.first[out'.key] = "nullptr")
            => out'.ret = "true"
       /\ out'.op \in {"create_orphan", "add_child"}
            => out'.ret = out.first[out'.key]
       /\ out'.op # "add_child" => jobs' = jobs
       /\ (out'.op = "add_child" /\ out'.ret = "nullptr") => jobs' = jobs]_vars

\* The name "A" was registered with class A, then again with class B, and
\* add_child("A") has constructed a job.
FirstRegistrationIsKept_Witness ==
    /\ out.op = "add_child" /\ out.key = <<65>>
    /\ out.ret = "class A" /\ out.arg = "class B"
    /\ Len(tree.nodes) = 1
    /\ jobs[2].st = "live" /\ jobs[2].m_parent = 1

FanOuts == {"notify_parent", "notify_children", "notify_group"}

NotificationIssued ==
    /\ stack # <<>> /\ Top.op \in FanOuts
    /\ Len(stack') = Len(stack) + 1
    /\ stack'[1].op = "notify"

\* The recipients of the fan-out of frame f, as they were at its call.
Recipients(f) ==
    IF f.op = "notify_parent" THEN <<jobs[f.job].m_parent>> ELSE f.at_call

\* C25: a fan-out issues a notification only while the notifying job is
\* active, so none when it is inactive at the call and none after a handler
\* has disabled it, put it to sleep or killed it; the notifications it does
\* issue go to the recipients in list order, each once: the n-th one issued
\* goes from the notifier to the n-th recipient.
FanOutStopsWhenNotifierInactive ==
    [][NotificationIssued =>
         LET f == stack'[2] IN
           /\ is_active(Top.job)
           /\ f.job = Top.job /\ stack'[1].c = Top.job
           /\ f.i = Top.i + 1
           /\ f.i <= Len(Recipients(f))
           /\ stack'[1].job = Recipients(f)[f.i]
           /\ NoRepeat(Recipients(f))]_vars

\* notify_children of a job with two children has notified the first one,
\* whose handler made the notifier inactive, and is about to test the loop
\* condition again.
FanOutStopsWhenNotifierInactive_Witness ==
    /\ ~crashed /\ stack # <<>>
    /\ Top.op = "notify_children" /\ Top.pc = "nc_ret"
    /\ Len(Top.at_call) = 2 /\ Top.i = 1
    /\ Live(Top.job) /\ ~is_active(Top.job)

\* The keys of S in the order of their hashes, smallest first.
RECURSIVE HashOrder(_)
HashOrder(S) ==
    IF S = {} THEN <<>>
    ELSE LET k == CHOOSE x \in S : \A y \in S : str_hash(x) <= str_hash(y)
         IN  <<k>> \o HashOrder(S \ {k})

\* The keys get finds in tree t, and the value get returns for key k.
KeysIn(t)     == {k \in Keys : str_get(t, k) \notin {Null, Hang}}
ValueIn(t, k) == t.nodes[str_get(t, k)].value

\* The step is a call of remove, of key out'.key.
RemoveStep == out'.op = "remove" /\ ops' = ops + 1

\* C27: remove(key) returns and is a standard deletion: afterwards get(key)
\* finds nothing, get finds every other key as before the call, with its
\* value, and traverse ends having visited the remaining entries in hash
\* order, each once.
RemoveIsStandardDeletion ==
    [][RemoveStep =>
         LET key  == out'.key
             rest == KeysIn(tree) \ {key}
         IN  /\ ~crashed'
             /\ str_get(tree', key) = Null
             /\ KeysIn(tree') = rest
             /\ \A k \in rest : ValueIn(tree', k) = ValueIn(tree, k)
             /\ traverse_all(tree').fuel > 0
             /\ traverse_all(tree').seen
                  = [i \in 1..Cardinality(rest) |->
                       ValueIn(tree, HashOrder(rest)[i])]]_vars

\* The step is a call of listen, or of ignore, for the event out'.key.
ListenStep == out'.op = "listen" /\ ops' = ops + 1
IgnoreStep == out'.op = "ignore" /\ ops' = ops + 1

\* The events bound in table t, other than event.
OtherBound(t, event) == {e \in Events \ {event} : HandlerOf(t, e) # "none"}

\* C26: a job holds one handler per event.  After listen(event, fn) a
\* notification of the event calls fn and nothing else, whatever was bound
\* to it before; after ignore(event) a notification of the event calls
\* nothing; both leave every other event that was bound, bound to the same
\* function, and ignore of an unbound event changes nothing.
OneHandlerPerEvent ==
    [][/\ ListenStep =>
            /\ HandlerOf(tree', out'.key) = out'.arg
            /\ \A e \in OtherBound(tree, out'.key) :
                  HandlerOf(tree', e) = HandlerOf(tree, e)
       /\ IgnoreStep =>
            /\ HandlerOf(tree', out'.key) = "none"
            /\ \A e \in OtherBound(tree, out'.key) :
                  HandlerOf(tree', e) = HandlerOf(tree, e)
            /\ HandlerOf(tree, out'.key) = "none" => tree' = tree]_vars

\* The step is a call of set_global_time_scale(out'.arg) on job out'.key[1].
SetGlobalStep ==
    out'.op = "set_global_time_scale" /\ ops' = ops + 1 /\ stack' = stack

\* The job is nested three levels deep: it has a parent and a grandparent.
ThreeDeep(j) == jobs[j].m_parent # Null /\ jobs[jobs[j].m_parent].m_parent # Null

\* The error of rounding to 16 fractional bits, for a job whose ancestors
\* scale time by p: one unit of the job's own scale, seen through p.
RoundingError(p) == 1 + p \div UnitScale

\* C28: for a job nested three levels deep, whatever local time scales its
\* ancestors hold, set_global_time_scale(s) divides by no zero, and
\* get_global_time_scale() then returns s to within the rounding error.
GlobalTimeScaleRoundTrip ==
    [][(SetGlobalStep /\ ThreeDeep(out'.key[1])) =>
         LET j == out'.key[1]
             s == out'.arg
             g == get_global_time_scale(jobs', j)
             p == get_parent_time_scale(jobs, j)
         IN  /\ p # 0
             /\ ~crashed'
             /\ s - g <= RoundingError(p)
             /\ g - s <= RoundingError(p)]_vars

\* C29: kill() invokes on_death only on a job that is active: the kill of a
\* job that is disabled or sleeping runs no on_death.
OnDeathOnlyIfActive ==
    [][(HookInvoked /\ stack'[1].pc = "on_death" /\ stack'[2].op = "kill")
         => is_active(stack'[1].job)]_vars

\* A restriction of the tick interval is in force on job j: its limits are
\* not those of a job just constructed, which unlimit_tick_interval sets.
Restricted(j) ==
    ~(jobs[j].m_min_duration_ns = 0 /\ jobs[j].m_max_duration_ns = UINT64_MAX)

\* C30: is_tick_limited() is true of a job exactly when a restriction of its
\* tick interval is in force: false for a job just constructed and after
\* unlimit_tick_interval() or unlimit_tick_rate(), true after a
\* limit_tick_interval that restricts.
TickLimitedIffRestricted ==
    \A j \in JobIds : Live(j) => (is_tick_limited(j) <=> Restricted(j))

\* ---- ticking: the sleep timer, the tick interval and the time accounts ----

\* A tree is built and cycled, from the top level and from hooks, with jobs
\* disabled, put to sleep and limited in their tick interval; cycle() keeps
\* the time accounts.
TickOp ==
    \/ \E j \in JobIds : CallAddChild(j)
    \/ \E j \in JobIds : Disable(j)
    \/ \E j \in JobIds : \E d \in Durations : SleepFor(j, d)
    \/ \E j \in JobIds : \E mn \in Intervals, mx \in Intervals :
          LimitTickInterval(j, mn, mx)
    \/ \E j \in JobIds : \E d \in Durations : CallCycle(j, d)

TickStep ==
    \/ TimedCycleEnter \/ TimedCycleIter \/ CycleTicked \/ CycleChildRet
    \/ AddChildEnter \/ AddChildBorn
    \/ HookReturn

TickNext == TickStep \/ TickOp

TickSpec == Init /\ [][TickNext]_vars

\* cycle() of a job stands in tick_children, before the loop test.
InTickChildren ==
    /\ ~crashed /\ stack # <<>>
    /\ Top.op = "cycle" /\ Top.pc \in {"ticked", "child_ret"}

\* The child the loop of tick_children stands at.
NextChild ==
    IF Top.pc = "ticked" THEN jobs[Top.job].m_child ELSE jobs[Top.c].m_sibling

\* C31: in a cycle() of J that reaches tick_children, every child of J is
\* cycled, in sibling order and with J's tick duration, whether or not J is
\* active: whenever the loop stands at a child, the next step is cycle() of
\* that child with the duration of J's tick.
ChildrenCycledWhetherActive ==
    [][(InTickChildren /\ NextChild # Null)
         => /\ Len(stack') = Len(stack) + 1
            /\ stack'[1].op = "cycle" /\ stack'[1].pc = "enter"
            /\ stack'[1].job = NextChild
            /\ stack'[1].d = Top.d]_vars

\* The clipped duration of the tick the loop of cycle() is about to make:
\* 'm_accumulated_duration_ns > max_dur_ns ? max_dur_ns : m_accumulated_duration_ns'
ClippedDuration ==
    IF jobs[Top.job].m_accumulated_duration_ns > Top.mx
    THEN Top.mx ELSE jobs[Top.job].m_accumulated_duration_ns

\* cycle() makes a tick: the loop head is passed without the exit of the
\* loop and without the abort for waiting.
TickMade ==
    /\ Running("cycle", "iter") /\ Top.i > 0
    /\ Len(stack') >= Len(stack)

\* The frame of that cycle() after the step, below the on_tick hook if it
\* was invoked; its d is the duration on_tick, the children and on_tock get.
TickFrame == IF stack'[1].op = "hook" THEN stack'[2] ELSE stack'[1]

\* C32: a tick of a job with s > 0 of sleep left and clipped duration d:
\* when d >= s the timer becomes 0 and the duration passed on is d - s; when
\* d < s the timer becomes s - d and the duration passed on is 0.
SleepDrainRemovesSleptTime ==
    [][(TickMade /\ jobs[Top.job].m_sleep_ns > 0)
         => LET s == jobs[Top.job].m_sleep_ns
                d == ClippedDuration
            IN  IF d >= s
                THEN jobs'[Top.job].m_sleep_ns = 0 /\ TickFrame.d = d - s
                ELSE jobs'[Top.job].m_sleep_ns = s - d /\ TickFrame.d = 0]_vars

\* ---- a job that keeps being cycled ----

\* The caller's loop: cycle() of the root, again and again, as the loop of
\* run() does; these calls are not counted.
Pace(duration_ns) ==
    /\ ~crashed /\ stack = <<>> /\ Live(1)
    /\ stack' = Push(CallFrame("cycle", 1, duration_ns))
    /\ UNCHANGED ops /\ StackOnly

PaceCall == \E d \in Durations : Pace(d)

\* What user code does to the root besides, between the calls and a bounded
\* number of times.
PaceOp ==
    \/ stack = <<>> /\ CallAddChild(1)
    \/ stack = <<>> /\ Disable(1)
    \/ \E d \in Durations : stack = <<>> /\ SleepFor(1, d)
    \/ \E mn \in Intervals, mx \in Intervals :
          stack = <<>> /\ LimitTickInterval(1, mn, mx)

PaceStep ==
    \/ CycleEnter \/ CycleIter \/ CycleTicked \/ CycleChildRet
    \/ AddChildEnter \/ AddChildBorn
    \/ HookReturn

PaceNext == PaceStep \/ PaceOp \/ PaceCall

\* The one thread of the program runs on, and the caller keeps cycling.
PaceSpec ==
    Init /\ [][PaceNext]_vars /\ WF_vars(PaceStep) /\ WF_vars(PaceCall)

\* The loop of cycle() stands at a tick whose clipped duration is below the
\* minimum saved at the entry of the call.
BelowMinimum ==
    /\ Running("cycle", "iter") /\ Top.i > 0
    /\ ClippedDuration < Top.mn

\* cycle() of the root has passed the minimum-duration test and is_waiting()
\* is false; on_tick was invoked if the job was active.
RootTicks ==
    /\ Running("cycle", "ticked") /\ Top.job = 1
    /\ ~jobs[1].m_waiting
    /\ (Top.ticked \/ ~is_active(1))

\* C33: a tick whose clipped duration is below the minimum aborts the cycle:
\* the call returns at once (no hook, no child cycled), the job is waiting,
\* the tick lock is released and the accumulated duration is kept; and a root
\* that waits and keeps being cycled ticks in the end, not waiting.
WaitingAbortsAndCatchesUp ==
    /\ [][BelowMinimum
            => /\ stack' = Pop
               /\ jobs'[Top.job].m_waiting
               /\ ~jobs'[Top.job].m_tick_lock
               /\ jobs'[Top.job].m_accumulated_duration_ns =
                      jobs[Top.job].m_accumulated_duration_ns]_vars
    /\ ((stack = <<>> /\ Live(1) /\ jobs[1].m_waiting) ~> RootTicks)

\* The root came back from a cycle() aborted for waiting with children
\* in its list, and awake.
WaitingAbortsAndCatchesUp_Witness ==
    /\ stack = <<>> /\ Live(1) /\ jobs[1].m_waiting
    /\ jobs[1].m_child # Null
    /\ jobs[1].m_sleep_ns = 0
    /\ jobs[1].m_accumulated_duration_ns > 0

\* ---- the tick interval ----

\* The root and its children are cycled while user code, at the top level
\* and in the hooks of the root and of the children, limits the tick interval
\* of the root and puts it to sleep.
BoundsOp ==
    \/ stack = <<>> /\ CallAddChild(1)
    \/ \E d \in Durations : SleepFor(1, d)
    \/ \E mn \in Intervals, mx \in Intervals : LimitTickInterval(1, mn, mx)
    \/ \E d \in Durations : CallCycle(1, d)

BoundsStep ==
    \/ CycleEnter \/ CycleIter \/ CycleTicked \/ CycleChildRet
    \/ AddChildEnter \/ AddChildBorn
    \/ HookReturn

BoundsNext == BoundsStep \/ BoundsOp

BoundsSpec == Init /\ [][BoundsNext]_vars

\* The step invokes on_tick or on_tock.
TickHookInvoked == HookInvoked /\ stack'[1].pc \in {"on_tick", "on_tock"}

\* C34: the duration on_tick and on_tock are called with lies within the
\* bounds cycle() saved at its entry, whatever the hooks and the children did
\* to the bounds of the job since; and the bounds of a job are stored with
\* min <= max.
TickDurationWithinBounds ==
    /\ [][TickHookInvoked
            => /\ stack'[2].op = "cycle" /\ stack'[2].job = stack'[1].job
               /\ stack'[2].mn <= stack'[1].d
               /\ stack'[1].d <= stack'[2].mx]_vars
    /\ [](\A j \in JobIds :
            Live(j) => jobs[j].m_min_duration_ns <= jobs[j].m_max_duration_ns)

\* on_tock runs with a positive duration in a cycle() whose on_tick hook or
\* whose child changed both bounds of the job.
TickDurationWithinBounds_Witness ==
    /\ Len(stack) >= 2
    /\ stack[1].op = "hook" /\ stack[1].pc = "on_tock" /\ stack[1].d > 0
    /\ stack[2].mn > 0
    /\ jobs[stack[1].job].m_min_duration_ns # stack[2].mn
    /\ jobs[stack[1].job].m_max_duration_ns # stack[2].mx
    /\ stack[1].d > jobs[stack[1].job].m_max_duration_ns

\* ---- the sleep timer ----

\* The sleep timer of a job goes down in the tick loop of its cycle() only
\* and never goes up there, and a call of user code (sleep_for) never takes
\* it down.
SleepTimerSteps ==
    [][/\ \A j \in JobIds :
            jobs'[j].m_sleep_ns < jobs[j].m_sleep_ns
               => Running("cycle", "iter") /\ Top.job = j
       /\ \A j \in JobIds :
            ops' # ops => jobs'[j].m_sleep_ns >= jobs[j].m_sleep_ns]_vars

\* C35: the sleep timer only runs down while the job is cycled, sleep_for
\* never shortens it, and a sleeping root that keeps being cycled wakes in
\* the end.
SleeperWakes ==
    /\ SleepTimerSteps
    /\ ((Live(1) /\ jobs[1].m_sleep_ns > 0) ~> jobs[1].m_sleep_ns = 0)

\* C35 for a root whose maximum tick duration is not zero.
SleeperWithTimeWakes ==
    /\ SleepTimerSteps
    /\ ((Live(1) /\ jobs[1].m_sleep_ns > 0)
          ~> (jobs[1].m_sleep_ns = 0 \/ jobs[1].m_max_duration_ns = 0))

\* The root sleeps between two calls with a timer that cycle() has run down
\* part of the way (sleep_for sets no such value), and its maximum tick
\* duration is not zero.
SleeperWithTimeWakes_Witness ==
    /\ stack = <<>> /\ Live(1)
    /\ jobs[1].m_sleep_ns > 0
    /\ jobs[1].m_sleep_ns \notin Durations
    /\ jobs[1].m_max_duration_ns > 0

\* ---- copies of a reference to a destroyed job ----

\* C36: copying or assigning from a reference whose job is destroyed reads
\* no destroyed job (the only set_ref calls with such a pointer are those of
\* the copy constructor and of the assignments), the copy reports absent,
\* and the watcher count of the block of a destroyed job is the number of
\* references bound to it.
CopyOfDestroyedReadsNoJob ==
    /\ "set_ref" \notin readFreed
    /\ \A r \in RefIds : BoundToDestroyed(r) => get_job(r) = Null
    /\ \A b \in JobIds :
          (shared[b].alloc = "live" /\ shared[b].deleted)
             => shared[b].watchers =
                   Cardinality({r \in RefIds : refs[r].m_shared = b})

\* ---- the time accounts ----

\* The job has the tick interval it was constructed with: no limit.
Unlimited(j) ==
    /\ jobs[j].m_min_duration_ns = 0
    /\ jobs[j].m_max_duration_ns = UINT64_MAX

\* C37: for a job with unit time scale and no tick limit, the durations
\* passed to on_tick sum to at most what cycle() was given less the time the
\* job was asleep.
SleptTimeNeverDelivered ==
    \A j \in JobIds :
        (Live(j) /\ Unlimited(j) /\ jobs[j].m_time_scale = UnitScale)
           => account[j].m_active_for_ns + account[j].slept_ns
                 <= account[j].given_ns

\* C38: m_existed_for_ns of a job is at most the sum of the scaled durations
\* its cycle() calls were made with.
ExistedWithinGiven ==
    \A j \in JobIds :
        Live(j) => account[j].m_existed_for_ns <= account[j].given_ns

\* ---- kill() re-entered from on_death ----

\* C39: a job on which a kill() call has returned has no children, and no
\* job has its death hook invoked twice, whatever the death hooks call on the
\* job being killed.
KilledJobHasNoChildren ==
    \A j \in JobIds :
        Live(j) => /\ killReturned[j] => jobs[j].m_child = Null
                   /\ deathCount[j] <= 1

\* ---- a Results list that outlives its jobs ----

\* The loop of notify_group, run by a live and active notifier, stands at a
\* result whose job has been destroyed since the list was built.
AtDestroyedResult ==
    /\ ~crashed /\ stack # <<>>
    /\ Top.op = "notify_group" /\ Top.pc \in {"enter", "ng_ret"}
    /\ Live(Top.job) /\ is_active(Top.job)
    /\ Top.i + 1 <= Len(Top.at_call)
    /\ Destroyed(Top.at_call[Top.i + 1])

\* C40: a result whose job has been destroyed is treated as absent: the
\* fan-out of notify_group passes over it, and the process lives on.
DestroyedResultIsAbsent ==
    [][AtDestroyedResult
         => /\ ~crashed'
            /\ stack' # <<>>
            /\ stack'[1].op \in {"notify", "notify_group"}
            /\ stack'[1].job # Top.at_call[Top.i + 1]]_vars

====
